---- MODULE Spec2Model ----
(***************************************************************************)
(* Option state store, OCC identifier codec and surface snapshot builder   *)
(* of the python-monorepo-template repository (packages store and domain). *)
(*                                                                         *)
(* Representation.  A Python str is a sequence of one-character strings.   *)
(* Prices (bid, ask, mid, spread) are exact reals kept in fixed point:     *)
(* the unit is half a tick and quote prices are whole ticks, so that the   *)
(* division of bid + ask by 2 is exact, as it is on the reals.             *)
(* A strike is kept in thousandths (int(digits) / 1000.0 is exact to       *)
(* within one rounding and injective on 8 digit integers).                 *)
(***************************************************************************)
EXTENDS Integers, Sequences, FiniteSets, TLC

VARIABLES
    occ_input,      \* argument of parse_occ_symbol (codec specification)
    parsed,         \* its outcome: Pending, None, ValueError or the 4-tuple
    _states,        \* OptionStore._states : occ_symbol -> OptionState
    op,             \* name of the last store operation called
    arg,            \* its argument
    ret,            \* its outcome (return value, or ValueError when it raised)
    last_accepted,  \* history: occ_symbol -> last quote accepted since clear
    max_ts,         \* history: occ_symbol -> largest ts accepted since clear
    view,           \* the dict object last returned by get_all
    view_obj,       \* which object that is: NoObj, NewDict or SelfStates
    surface,        \* the OptionSurfaceSnapshot last built (or None)
    states_in,      \* the iterable handed to build_surface_snapshot
    build_args,     \* its keyword arguments symbol, expiration_date, max_spread
    call_in,        \* arguments of the modeler function under study
    call_out,       \* its outcome: Pending, None, an exception or the value
    bisect,         \* the frame of implied_vol_bisect (locals and position)
    _events,        \* EventStore._events : symbol -> list of EventMetadata
    _last_refresh,  \* EventStore._last_refresh : None or a time
    loop_pc,        \* position of start_refresh_loop
    attempts,       \* parity of the number of refresh attempts of the loop
    clock,          \* datetime.now(UTC), in ticks
    fetched,        \* outcome of the last fetch_stock_events call
    before,         \* history: _events and _last_refresh before that call
    event_queue,    \* OptionsQuoteListener.event_queue: None or an asyncio.Queue
    _msg_count,     \* OptionsQuoteListener._msg_count
    _client,        \* OptionsQuoteListener._client: None or the WebSocketClient
    run_pc,         \* position of OptionsQuoteListener.run
    run_outcome,    \* what the awaiter of run gets: Pending, None or an exception
    batch,          \* history: the last batch handled and the store before it
    offered,        \* history: the quotes offered to the store, in arrival order
    took            \* history: position in offered of the event last taken

vars == <<occ_input, parsed, _states, op, arg, ret, last_accepted, max_ts,
          view, view_obj, surface, states_in, build_args,
          call_in, call_out, bisect,
          _events, _last_refresh, loop_pc, attempts, clock, fetched, before,
          event_queue, _msg_count, _client, run_pc, run_outcome, batch,
          offered, took>>

codecVars == <<occ_input, parsed>>
storeVars == <<_states, op, arg, ret, last_accepted, max_ts>>
viewVars == <<view, view_obj>>
buildVars == <<surface, states_in, build_args>>
modelerVars == <<call_in, call_out, bisect>>
eventVars == <<_events, _last_refresh, loop_pc, attempts, clock, fetched, before>>
listenerVars == <<event_queue, _msg_count, _client, run_pc, run_outcome, batch,
                  offered, took>>

\* ------------------------------------------------------------------ bounds
MaxTick == 1
MaxTs == 2
MaxLen == 3
MaxIter == 3
MaxMsgs == 3

\* --------------------------------------------------------------- constants
EXPIRY_HOUR == 21

\* Every Python value of the model is a record with a kind, so that an
\* optional result compares with None
None == [kind |-> "None"]
Pending == [kind |-> "Pending"]
ValueError == [kind |-> "ValueError"]

\* ------------------------------------------------------------- characters
LF == "\n"
\* ARABIC-INDIC DIGIT SEVEN (U+0667), a non-ASCII member of the class \d
U0667 == "u0667"

UPPER == {"A", "B", "C", "D", "E", "F", "G", "H", "I", "J", "K", "L", "M",
          "N", "O", "P", "Q", "R", "S", "T", "U", "V", "W", "X", "Y", "Z"}

ASCII_DIGITS == {"0", "1", "2", "3", "4", "5", "6", "7", "8", "9"}

\* str-pattern \d : every Unicode decimal digit
IsDigit(c) == c \in ASCII_DIGITS \cup {U0667}

\* int() of one decimal digit
DigitVal(c) ==
    CASE c = "0" -> 0 [] c = "1" -> 1 [] c = "2" -> 2 [] c = "3" -> 3
      [] c = "4" -> 4 [] c = "5" -> 5 [] c = "6" -> 6 [] c = "7" -> 7
      [] c = "8" -> 8 [] c = "9" -> 9 [] c = U0667 -> 7

RECURSIVE IntOf(_)
\* int(s) for a string of decimal digits
IntOf(s) ==
    IF s = <<>> THEN 0
    ELSE 10 * IntOf(SubSeq(s, 1, Len(s) - 1)) + DigitVal(s[Len(s)])

\* ------------------------------------------------------------------ domain
SYMBOLS == { <<"A", "A", "P", "L">>, <<"M", "S", "F", "T">>,
             <<"G", "O", "O", "G", "L">>, <<"A", "M", "Z", "N">>,
             <<"T", "S", "L", "A">>, <<"M", "E", "T", "A">>,
             <<"N", "V", "D", "A">>, <<"N", "F", "L", "X">>,
             <<"P", "L", "T", "R">>, <<"O", "P", "E", "N">> }

is_symbol(value) == value \in SYMBOLS

DaysInMonth(y, m) ==
    IF m = 2 THEN (IF y % 4 = 0 /\ (y % 100 # 0 \/ y % 400 = 0) THEN 29 ELSE 28)
    ELSE IF m \in {4, 6, 9, 11} THEN 30 ELSE 31

\* datetime.strptime(date_str, "%Y-%m-%d").date() on "20" + yy + "-" + mm +
\* "-" + dd.  %Y is \d\d\d\d; %m is 1[0-2]|0[1-9]|[1-9]; %d is
\* 3[0-1]|[1-2]\d|0[1-9]|[1-9]| [1-9]; only \d admits non-ASCII digits.
\* A string that does not match, or a day past the month's end, raises.
strptime_date(yy, mm, dd) ==
    LET monthOk == \/ mm[1] = "1" /\ mm[2] \in {"0", "1", "2"}
                   \/ mm[1] = "0" /\ mm[2] \in ASCII_DIGITS \ {"0"}
        dayOk == \/ dd[1] = "3" /\ dd[2] \in {"0", "1"}
                 \/ dd[1] \in {"1", "2"} /\ IsDigit(dd[2])
                 \/ dd[1] = "0" /\ dd[2] \in ASCII_DIGITS \ {"0"}
        y == 2000 + IntOf(yy)
        m == IntOf(mm)
        d == IntOf(dd)
    IN  IF ~(monthOk /\ dayOk) THEN ValueError
        ELSE IF d > DaysInMonth(y, m) THEN ValueError
        ELSE [kind |-> "date", year |-> y, month |-> m, day |-> d]

\* make_expiry_datetime: the date combined with EXPIRY_TIME_UTC
make_expiry_datetime(yy, mm, dd) ==
    LET d == strptime_date(yy, mm, dd)
    IN  IF d = ValueError THEN ValueError
        ELSE [kind |-> "datetime", year |-> d.year, month |-> d.month, day |-> d.day,
              hour |-> EXPIRY_HOUR, minute |-> 0, second |-> 0, tzinfo |-> "UTC"]

\* ------------------------------------------------------------------- codec
\* _OCC_PATTERN.match(s): the groups of the match, or None.  "$" matches at
\* the end of the string and also just before a newline that ends it.  The
\* letters of the ticker and the digits after it are disjoint classes, so
\* the match is unique: 15 characters follow the ticker.
_OCC_PATTERN(s) ==
    LET n == IF Len(s) > 0 /\ s[Len(s)] = LF THEN Len(s) - 1 ELSE Len(s)
    IN  IF /\ n >= 18
           /\ s[1] = "O" /\ s[2] = ":"
           /\ \A i \in 3..(n - 15) : s[i] \in UPPER
           /\ \A i \in (n - 14)..(n - 9) : IsDigit(s[i])
           /\ s[n - 8] \in {"C", "P"}
           /\ \A i \in (n - 7)..n : IsDigit(s[i])
        THEN [kind |-> "Match", symbol |-> SubSeq(s, 3, n - 15),
              yy |-> SubSeq(s, n - 14, n - 13),
              mm |-> SubSeq(s, n - 12, n - 11),
              dd |-> SubSeq(s, n - 10, n - 9),
              type |-> s[n - 8],
              strike |-> SubSeq(s, n - 7, n)]
        ELSE None

\* parse_occ_symbol: None, the record (symbol, expiration_date, option_type,
\* strike), or ValueError when make_expiry_datetime raises
parse_occ_symbol(occ_symbol) ==
    LET match == _OCC_PATTERN(occ_symbol)
    IN  IF match = None THEN None
        ELSE IF ~is_symbol(match.symbol) THEN None
        ELSE LET expiration_date == make_expiry_datetime(match.yy, match.mm, match.dd)
             IN  IF expiration_date = ValueError THEN ValueError
                 ELSE [kind |-> "tuple", symbol |-> match.symbol,
                       expiration_date |-> expiration_date,
                       option_type |-> IF match.type = "C" THEN "call" ELSE "put",
                       strike |-> IntOf(match.strike)]

\* -------------------------------------------------------------------- dict
\* A Python dict keeps insertion order: a sequence of [key, value] entries
\* with distinct keys.
EmptyDict == <<>>

DictKeys(d) == {d[i].key : i \in 1..Len(d)}

DictValues(d) == [i \in 1..Len(d) |-> d[i].value]

\* d.get(k)
DictGet(d, k) ==
    IF k \in DictKeys(d)
    THEN (CHOOSE e \in {d[i] : i \in 1..Len(d)} : e.key = k).value
    ELSE None

\* d[k] = v : an existing key keeps its position, a new key goes last
DictSet(d, k, v) ==
    IF k \in DictKeys(d)
    THEN [i \in 1..Len(d) |-> IF d[i].key = k THEN [key |-> k, value |-> v] ELSE d[i]]
    ELSE Append(d, [key |-> k, value |-> v])

\* del d[k]
DictDel(d, k) == SelectSeq(d, LAMBDA e : e.key # k)

\* ------------------------------------------------------------ option store
\* the garbage check without the crossed-market test
IsGarbage_signs_only(quote) == quote.bid < 0 \/ quote.ask < 0

\* apply_quote, lines 96-98: the garbage check
IsGarbage(quote) == quote.bid < 0 \/ quote.ask < 0 \/ quote.bid > quote.ask

\* apply_quote, lines 104-120: the OptionState built from a parsed quote
NewOptionState(quote, p) ==
    [kind |-> "OptionState",
     occ_symbol |-> quote.occ_symbol,
     symbol |-> p.symbol,
     strike_price |-> p.strike,
     expiration_date |-> p.expiration_date,
     option_type |-> p.option_type,
     bid |-> quote.bid,
     ask |-> quote.ask,
     mid |-> (quote.bid + quote.ask) \div 2,
     spread |-> quote.ask - quote.bid,
     last_updated |-> quote.ts]

\* apply_quote_call with the state kept when its timestamp is newer than the
\* quote's (a merge by timestamp instead of by arrival)
apply_quote_call_by_ts(states, quote) ==
    IF IsGarbage(quote) THEN [ret |-> None, states |-> states]
    ELSE LET p == parse_occ_symbol(quote.occ_symbol)
             old == DictGet(states, quote.occ_symbol)
         IN  IF p = None THEN [ret |-> None, states |-> states]
             ELSE IF p = ValueError THEN [ret |-> ValueError, states |-> states]
             ELSE LET state == NewOptionState(quote, p)
                  IN  [ret |-> state,
                       states |-> IF old # None /\ old.last_updated > quote.ts
                                  THEN states
                                  ELSE DictSet(states, quote.occ_symbol, state)]

\* apply_quote_call with the new mid averaged with the stored one
apply_quote_call_merge(states, quote) ==
    IF IsGarbage(quote) THEN [ret |-> None, states |-> states]
    ELSE LET p == parse_occ_symbol(quote.occ_symbol)
             old == DictGet(states, quote.occ_symbol)
         IN  IF p = None THEN [ret |-> None, states |-> states]
             ELSE IF p = ValueError THEN [ret |-> ValueError, states |-> states]
             ELSE LET fresh == NewOptionState(quote, p)
                      state == IF old = None THEN fresh
                               ELSE [fresh EXCEPT !.mid = (old.mid + fresh.mid) \div 2]
                  IN  [ret |-> state,
                       states |-> DictSet(states, quote.occ_symbol, state)]

\* apply_quote on the mapping states: what it returns (None, the new state,
\* or ValueError when parse_occ_symbol raises and the exception leaves
\* apply_quote) and the mapping it leaves behind
apply_quote_call(states, quote) ==
    IF IsGarbage(quote) THEN [ret |-> None, states |-> states]
    ELSE LET p == parse_occ_symbol(quote.occ_symbol)
         IN  IF p = None THEN [ret |-> None, states |-> states]
             ELSE IF p = ValueError THEN [ret |-> ValueError, states |-> states]
             ELSE LET state == NewOptionState(quote, p)
                  IN  [ret |-> state,
                       states |-> DictSet(states, quote.occ_symbol, state)]

\* history variables: what the caller saw accepted since the last clear
NoteAccepted(quote, result) ==
    IF result.kind = "OptionState"
    THEN /\ last_accepted' =
                {q \in last_accepted : q.occ_symbol # quote.occ_symbol} \cup {quote}
         /\ max_ts' =
                LET old == {m \in max_ts : m.occ_symbol = quote.occ_symbol}
                    top == IF \E m \in old : m.ts > quote.ts
                           THEN (CHOOSE m \in old : TRUE).ts ELSE quote.ts
                IN  (max_ts \ old) \cup {[occ_symbol |-> quote.occ_symbol, ts |-> top]}
    ELSE UNCHANGED <<last_accepted, max_ts>>

apply_quote(quote) ==
    LET out == apply_quote_call(_states, quote)
    IN  /\ op' = "apply_quote"
        /\ arg' = [kind |-> "quote", quote |-> quote]
        /\ ret' = out.ret
        /\ _states' = out.states
        /\ NoteAccepted(quote, out.ret)
        /\ view' = IF view_obj = "SelfStates" THEN out.states ELSE view
        /\ UNCHANGED <<view_obj, codecVars, buildVars,
                 modelerVars, eventVars, listenerVars>>

\* clear emptying a container that a Surface already built still reads
clear_shared_with_surface ==
    /\ op' = "clear"
    /\ arg' = None
    /\ ret' = None
    /\ _states' = EmptyDict
    /\ last_accepted' = {}
    /\ max_ts' = {}
    /\ view' = IF view_obj = "SelfStates" THEN _states' ELSE view
    /\ surface' = IF surface = None THEN surface
                  ELSE [surface EXCEPT !.calls = <<>>, !.puts = <<>>]
    /\ UNCHANGED <<view_obj, codecVars, states_in, build_args,
                 modelerVars, eventVars, listenerVars>>

clear ==
    /\ op' = "clear"
    /\ arg' = None
    /\ ret' = None
    /\ _states' = EmptyDict
    /\ last_accepted' = {}
    /\ max_ts' = {}
    /\ view' = IF view_obj = "SelfStates" THEN _states' ELSE view
    /\ UNCHANGED <<view_obj, codecVars, buildVars,
                 modelerVars, eventVars, listenerVars>>

\* ------------------------------------------------------------ read interface
\* sorted(set) of numbers, ascending
SortedSet(S) ==
    LET sorted(T) == [r \in 1..Cardinality(T) |->
                         CHOOSE x \in T : Cardinality({y \in T : y < x}) = r - 1]
    IN  CHOOSE s \in {sorted(T) : T \in {S}} : TRUE

List(items) == [kind |-> "list", items |-> items]

IntValue(n) == [kind |-> "int", value |-> n]

get_by_symbol_result(states, symbol) ==
    SelectSeq(DictValues(states), LAMBDA st : st.symbol = symbol)

\* a call of the read interface: only op, arg and ret change
Read(name, argument, result) ==
    /\ op' = name
    /\ arg' = argument
    /\ ret' = result
    /\ UNCHANGED <<_states, last_accepted, max_ts, viewVars, codecVars, buildVars,
                 modelerVars, eventVars, listenerVars>>

get(occ_symbol) ==
    Read("get", [kind |-> "args", occ_symbol |-> occ_symbol],
         DictGet(_states, occ_symbol))

get_by_symbol(symbol) ==
    Read("get_by_symbol", [kind |-> "args", symbol |-> symbol],
         List(get_by_symbol_result(_states, symbol)))

get_by_strike(symbol, strike) ==
    Read("get_by_strike", [kind |-> "args", symbol |-> symbol, strike |-> strike],
         List(SelectSeq(DictValues(_states),
                     LAMBDA st : st.symbol = symbol /\ st.strike_price = strike)))

get_strikes(symbol) ==
    Read("get_strikes", [kind |-> "args", symbol |-> symbol],
         List(SortedSet({_states[i].value.strike_price : i \in
                 {j \in 1..Len(_states) : _states[j].value.symbol = symbol}})))

count ==
    Read("count", None, IntValue(Len(_states)))

\* get_all returning self._states itself
get_all_no_copy ==
    /\ op' = "get_all"
    /\ arg' = None
    /\ ret' = [kind |-> "dict", items |-> _states]
    /\ view' = _states
    /\ view_obj' = "SelfStates"
    /\ UNCHANGED <<_states, last_accepted, max_ts, codecVars, buildVars,
                 modelerVars, eventVars, listenerVars>>

\* get_all returns dict(self._states): a new dict object with the same entries
get_all ==
    /\ op' = "get_all"
    /\ arg' = None
    /\ ret' = [kind |-> "dict", items |-> _states]
    /\ view' = _states
    /\ view_obj' = "NewDict"
    /\ UNCHANGED <<_states, last_accepted, max_ts, codecVars, buildVars,
                 modelerVars, eventVars, listenerVars>>

\* The caller mutates the dict it got from get_all.  The store's mapping
\* follows only if that dict is the store's own object.
MutateView(name, argument, newView) ==
    /\ view_obj # "NoObj"
    /\ op' = name
    /\ arg' = argument
    /\ ret' = None
    /\ view' = newView
    /\ _states' = IF view_obj = "SelfStates" THEN newView ELSE _states
    /\ UNCHANGED <<view_obj, last_accepted, max_ts, codecVars, buildVars,
                 modelerVars, eventVars, listenerVars>>

\* all_states.clear()
view_clear == MutateView("view.clear", None, EmptyDict)

\* del all_states[key]
view_delitem(key) ==
    /\ key \in DictKeys(view)
    /\ MutateView("view.delitem", [kind |-> "args", occ_symbol |-> key],
                  DictDel(view, key))

\* all_states[key] = value
view_setitem(key, value) ==
    MutateView("view.setitem", [kind |-> "args", occ_symbol |-> key],
               DictSet(view, key, value))

\* ---------------------------------------------------------- surface builder
Float(x) == [kind |-> "float", value |-> x]

\* OptionPoint(strike=s.strike_price, option_type=s.option_type, ...)
OptionPoint(s) ==
    [kind |-> "OptionPoint",
     strike |-> s.strike_price,
     option_type |-> s.option_type,
     bid |-> s.bid,
     ask |-> s.ask,
     mid |-> s.mid,
     spread |-> s.spread]

\* one step of the stable sort: p goes after every point whose strike is
\* not larger
InsertByStrike(sorted, p) ==
    LET below == {i \in 1..Len(sorted) : sorted[i].strike <= p.strike}
        k == Cardinality(below)
    IN  SubSeq(sorted, 1, k) \o <<p>> \o SubSeq(sorted, k + 1, Len(sorted))

\* the points left in the order of the input
SortByStrike_unsorted(points) == points

RECURSIVE SortByStrike(_)
\* list.sort(key=lambda p: p.strike): ascending and stable
SortByStrike(points) ==
    IF points = <<>> THEN <<>>
    ELSE InsertByStrike(SortByStrike(SubSeq(points, 1, Len(points) - 1)),
                        points[Len(points)])

\* the OptionPoint of each state, in order
Points(states) == [i \in 1..Len(states) |-> OptionPoint(states[i])]

\* Kept with the spread test passing only below max_spread
Kept_strict(states, symbol, expiration_date, max_spread) ==
    SelectSeq(states, LAMBDA s :
        /\ ~(s.symbol # symbol \/ s.expiration_date # expiration_date)
        /\ ~(max_spread # None /\ s.spread >= max_spread.value))

\* the states the loop of build_surface_snapshot does not skip
Kept(states, symbol, expiration_date, max_spread) ==
    SelectSeq(states, LAMBDA s :
        /\ ~(s.symbol # symbol \/ s.expiration_date # expiration_date)
        /\ ~(max_spread # None /\ s.spread > max_spread.value))

build_surface_snapshot(states, symbol, expiration_date, max_spread) ==
    LET kept == Kept(states, symbol, expiration_date, max_spread)
        calls == Points(SelectSeq(kept, LAMBDA s : s.option_type = "call"))
        puts == Points(SelectSeq(kept, LAMBDA s : s.option_type # "call"))
    IN  [kind |-> "OptionSurfaceSnapshot",
         symbol |-> symbol,
         expiration_date |-> expiration_date,
         calls |-> SortByStrike(calls),
         puts |-> SortByStrike(puts)]

BuildArgs(symbol, expiration_date, max_spread) ==
    [kind |-> "args", symbol |-> symbol, expiration_date |-> expiration_date,
     max_spread |-> max_spread]

\* run_models_for_expiry: the snapshot of the store's states for a symbol
snapshot_from_store(symbol, expiration_date, max_spread) ==
    /\ op' = "build_surface_snapshot"
    /\ arg' = None
    /\ ret' = None
    /\ states_in' = get_by_symbol_result(_states, symbol)
    /\ build_args' = BuildArgs(symbol, expiration_date, max_spread)
    /\ surface' = build_surface_snapshot(states_in', symbol, expiration_date, max_spread)
    /\ UNCHANGED <<_states, last_accepted, max_ts, viewVars, codecVars,
                 modelerVars, eventVars, listenerVars>>

\* build_surface_snapshot called on a given iterable
snapshot_from_input ==
    /\ surface = None
    /\ surface' = build_surface_snapshot(states_in, build_args.symbol,
                      build_args.expiration_date, build_args.max_spread)
    /\ UNCHANGED <<states_in, build_args, storeVars, viewVars, codecVars,
                 modelerVars, eventVars, listenerVars>>

\* parse_occ_symbol called on a given string
parse_input ==
    /\ parsed = Pending
    /\ parsed' = parse_occ_symbol(occ_input)
    /\ UNCHANGED <<occ_input, storeVars, viewVars, buildVars,
                 modelerVars, eventVars, listenerVars>>

\* --------------------------------------------------------------- real numbers
\* The modeler computes on floats.  The model computes on the reals they
\* stand for, kept exactly as fractions in lowest terms.
RECURSIVE GCD(_, _)
GCD(a, b) == IF b = 0 THEN a ELSE GCD(b, a % b)

Abs(x) == IF x < 0 THEN -x ELSE x

\* the real n / d, d # 0
Rat(n, d) ==
    LET g == GCD(Abs(n), Abs(d))
        s == IF d < 0 THEN -1 ELSE 1
    IN  [num |-> s * (n \div g), den |-> s * (d \div g)]

Zero == Rat(0, 1)
One == Rat(1, 1)

RAdd(x, y) == Rat(x.num * y.den + y.num * x.den, x.den * y.den)
RNeg(x) == Rat(-x.num, x.den)
RSub(x, y) == RAdd(x, RNeg(y))
RMul(x, y) == Rat(x.num * y.num, x.den * y.den)
\* x / y, y # 0
RDiv(x, y) == Rat(x.num * y.den, x.den * y.num)
RLe(x, y) == x.num * y.den <= y.num * x.den
RLt(x, y) == x.num * y.den < y.num * x.den
RAbs(x) == Rat(Abs(x.num), x.den)
\* max(x, y) and min(x, y) of Python: the first argument unless the second
\* is strictly larger (smaller)
RMax(x, y) == IF RLt(x, y) THEN y ELSE x
RMin(x, y) == IF RLt(y, x) THEN y ELSE x

\* float("nan")
NaN == [kind |-> "nan"]

\* a price of the store (half ticks, a tick being one dollar) in dollars
Dollars(price) == Rat(price, 2)
\* a strike of the store (thousandths) in dollars
StrikeDollars(strike) == Rat(strike, 1000)

\* --------------------------------------------------------- domain.models
\* OptionSurfaceSnapshot.get_call: the first call at exactly this strike
get_call(snapshot, strike) ==
    LET hits == SelectSeq(snapshot.calls, LAMBDA p : p.strike = strike)
    IN  IF hits = <<>> THEN None ELSE hits[1]

\* OptionSurfaceSnapshot.get_put: the first put at exactly this strike
get_put(snapshot, strike) ==
    LET hits == SelectSeq(snapshot.puts, LAMBDA p : p.strike = strike)
    IN  IF hits = <<>> THEN None ELSE hits[1]

StrikeProbability(strike_price, prob_above) ==
    [kind |-> "StrikeProbability", strike_price |-> strike_price,
     prob_above |-> prob_above]

\* StrikeProbability.prob_below
prob_below(sp) == RSub(One, sp.prob_above)

\* ------------------------------------------------- ratio and slope models
\* the probability returned as computed, without the clamp
clamp01_skipped(x) == x

\* max(0.0, min(1.0, x))
clamp01(x) == RMax(Zero, RMin(One, x))

\* the ratio model without its max_spread filter
estimate_probability_simple_unfiltered(snapshot, strike, max_spread) ==
    LET call == get_call(snapshot, strike)
        put == get_put(snapshot, strike)
    IN  IF call = None \/ put = None THEN None
        ELSE IF call.mid <= 0 \/ put.mid <= 0 THEN None
        ELSE StrikeProbability(strike,
                 clamp01(RDiv(Dollars(call.mid), Dollars(call.mid + put.mid))))

estimate_probability_simple(snapshot, strike, max_spread) ==
    LET call == get_call(snapshot, strike)
        put == get_put(snapshot, strike)
    IN  IF call = None \/ put = None THEN None
        ELSE IF /\ max_spread # None
                /\ (call.spread > max_spread.value \/ put.spread > max_spread.value)
             THEN None
        ELSE LET c == Dollars(call.mid)
                 p == Dollars(put.mid)
                 denom == RAdd(c, p)
             IN  IF RLe(c, Zero) \/ RLe(p, Zero) THEN None
                 ELSE IF RLe(denom, Zero) THEN None
                 ELSE StrikeProbability(strike, clamp01(RDiv(c, denom)))

\* SimpleModel.prob_above
SimpleModel_prob_above(snapshot, max_spread, K) ==
    LET result == estimate_probability_simple(snapshot, K, max_spread)
    IN  IF result = None THEN NaN ELSE result.prob_above

\* min(range(len(strikes)), key=lambda j: abs(strikes[j] - strike)): the first
\* index of a strike at the least distance (indices from 1); calls not empty
nearest_index(calls, strike) ==
    LET dist(j) == Abs(calls[j].strike - strike)
    IN  CHOOSE i \in 1..Len(calls) :
            /\ \A j \in 1..Len(calls) : dist(i) <= dist(j)
            /\ \A j \in 1..(i - 1) : dist(j) > dist(i)

\* the finite difference of the call mids over the strikes left and right
slope_between(calls, left, right) ==
    RDiv(RSub(Dollars(calls[right].mid), Dollars(calls[left].mid)),
         RSub(StrikeDollars(calls[right].strike), StrikeDollars(calls[left].strike)))

\* the slope model testing the spreads of the two outer calls only
estimate_probability_slope_outer(snapshot, strike, window, discount, max_spread) ==
    LET calls == snapshot.calls
        i == nearest_index(calls, strike)
        left == i - window
        right == i + window
    IN  IF Len(calls) < 2 * window + 1 THEN None
        ELSE IF left < 1 \/ right > Len(calls) THEN None
        ELSE IF /\ max_spread # None
                /\ \E j \in {left, right} : calls[j].spread > max_spread.value
             THEN None
        ELSE IF calls[right].strike = calls[left].strike THEN None
        ELSE StrikeProbability(strike,
                 clamp01(RDiv(RNeg(slope_between(calls, left, right)), discount)))

estimate_probability_slope(snapshot, strike, window, discount, max_spread) ==
    LET calls == snapshot.calls
        i == nearest_index(calls, strike)
        left == i - window
        right == i + window
    IN  IF Len(calls) < 2 * window + 1 THEN None
        ELSE IF left < 1 \/ right > Len(calls) THEN None
        ELSE IF /\ max_spread # None
                /\ \E j \in left..right : calls[j].spread > max_spread.value
             THEN None
        ELSE IF calls[right].strike = calls[left].strike THEN None
        ELSE StrikeProbability(strike,
                 clamp01(RDiv(RNeg(slope_between(calls, left, right)), discount)))

\* SlopeModel.prob_above
SlopeModel_prob_above(snapshot, window, discount, max_spread, K) ==
    LET result == estimate_probability_slope(snapshot, K, window, discount, max_spread)
    IN  IF result = None THEN NaN ELSE result.prob_above

ModelArgs(strike, window, discount, max_spread) ==
    [kind |-> "args", strike |-> strike, window |-> window,
     discount |-> discount, max_spread |-> max_spread]

Called(fn, result, wrapped) ==
    [kind |-> "call", fn |-> fn, result |-> result, wrapped |-> wrapped]

\* estimate_probability_simple and SimpleModel.prob_above on a given surface
simple_from_input ==
    /\ call_out = Pending
    /\ call_out' = Called("estimate_probability_simple",
           estimate_probability_simple(surface, call_in.strike, call_in.max_spread),
           SimpleModel_prob_above(surface, call_in.max_spread, call_in.strike))
    /\ UNCHANGED <<call_in, bisect, codecVars, storeVars, viewVars, buildVars,
                   eventVars, listenerVars>>

\* estimate_probability_slope and SlopeModel.prob_above on a given surface
slope_from_input ==
    /\ call_out = Pending
    /\ call_out' = Called("estimate_probability_slope",
           estimate_probability_slope(surface, call_in.strike, call_in.window,
                                      call_in.discount, call_in.max_spread),
           SlopeModel_prob_above(surface, call_in.window, call_in.discount,
                                 call_in.max_spread, call_in.strike))
    /\ UNCHANGED <<call_in, bisect, codecVars, storeVars, viewVars, buildVars,
                   eventVars, listenerVars>>

\* ------------------------------------------------------- forward estimator
\* A weight, or a sum of weights or of weighted forwards: big * 10^9 + fin.
\* The weight 1 / max(spread, 1e-9) is 10^9 for a spread of 0 (big = 1) and
\* 1 / spread otherwise (big = 0).
Weighted(big, fin) == [big |-> big, fin |-> fin]

WZero == Weighted(Zero, Zero)
WAdd(x, y) == Weighted(RAdd(x.big, y.big), RAdd(x.fin, y.fin))
WSub(x, y) == Weighted(RSub(x.big, y.big), RSub(x.fin, y.fin))
\* the product of the real q and x
WScale(q, x) == Weighted(RMul(q, x.big), RMul(q, x.fin))

\* the sign of big * 10^9 + fin; fin stays below 10^4 and the denominator of
\* big below 10^5, so that a big part other than 0 decides the sign
WSign(x) ==
    LET sign(r) == IF r.num > 0 THEN 1 ELSE IF r.num < 0 THEN -1 ELSE 0
        small == Abs(x.fin.num) \div x.fin.den < 10000 /\ x.big.den < 100000
    IN  IF x.big.num = 0 THEN sign(x.fin)
        ELSE CHOOSE s \in {sign(x.big)} : small

\* 1.0 / max(spread, 1e-9), for a spread that is 0 or at least 1e-9 (the
\* spreads of whole ticks are)
weight_of(spread) ==
    IF RLe(spread, Zero) THEN Weighted(One, Zero)
    ELSE Weighted(Zero, RDiv(One, spread))

\* the quotient num / den of two such sums, den # 0
Quotient(num, den) ==
    IF num.big = Zero /\ den.big = Zero
    THEN [kind |-> "quotient", num |-> Weighted(Zero, RDiv(num.fin, den.fin)),
          den |-> Weighted(Zero, One)]
    ELSE [kind |-> "quotient", num |-> num, den |-> den]

\* the sign of q.num / q.den - x, x a real, for q.den > 0
QCompare(q, x) == WSign(WSub(q.num, WScale(x, q.den)))

\* sorted(...) of a list of reals: the element at index i goes to the place
\* after the smaller ones and after the equal ones before it
SortReals(xs) ==
    LET place(v, i) == Cardinality({j \in 1..Len(v) :
                           RLt(v[j], v[i]) \/ (v[j] = v[i] /\ j <= i)})
        sorted(v) == [r \in 1..Len(v) |-> v[CHOOSE i \in 1..Len(v) : place(v, i) = r]]
    IN  CHOOSE s \in {sorted(v) : v \in {xs}} : TRUE

RECURSIVE SumW(_)
\* sum(w for _, w in xs)
SumW(xs) ==
    IF xs = <<>> THEN WZero ELSE WAdd(SumW(Tail(xs)), Head(xs).w)

RECURSIVE SumFW_unweighted(_)
RECURSIVE SumFW(_)
\* the sum of the forwards, every weight taken as 1
SumFW_unweighted(xs) ==
    IF xs = <<>> THEN WZero
    ELSE WAdd(SumFW_unweighted(Tail(xs)), Weighted(Zero, Head(xs).f))

\* sum(f * w for f, w in xs)
SumFW(xs) ==
    IF xs = <<>> THEN WZero
    ELSE WAdd(SumFW(Tail(xs)), WScale(Head(xs).f, Head(xs).w))

\* sorted(set(call_strikes).intersection(put_strikes))
common_strikes(snapshot) ==
    SortedSet({snapshot.calls[i].strike : i \in 1..Len(snapshot.calls)}
              \cap {snapshot.puts[i].strike : i \in 1..Len(snapshot.puts)})

\* the loop body of estimate_forward_put_call_parity for the strike k: the
\* candidate (f_i, w) appended, or nothing
candidate_at(snapshot, k, discount, max_spread, min_mid) ==
    LET call == get_call(snapshot, k)
        put == get_put(snapshot, k)
        f_i == RAdd(StrikeDollars(k),
                    RDiv(RSub(Dollars(call.mid), Dollars(put.mid)), discount))
        w == weight_of(RAdd(Dollars(call.spread), Dollars(put.spread)))
    IN  IF call = None \/ put = None THEN <<>>
        ELSE IF RLe(Dollars(call.mid), min_mid) \/ RLe(Dollars(put.mid), min_mid)
             THEN <<>>
        ELSE IF call.bid < 0 \/ call.ask < 0 \/ call.bid > call.ask THEN <<>>
        ELSE IF put.bid < 0 \/ put.ask < 0 \/ put.bid > put.ask THEN <<>>
        ELSE IF /\ max_spread # None
                /\ (call.spread > max_spread.value \/ put.spread > max_spread.value)
             THEN <<>>
        ELSE IF RLe(f_i, Zero) THEN <<>>
        ELSE <<[f |-> f_i, w |-> w]>>

RECURSIVE candidates_of(_, _, _, _, _)
\* the candidates of the strikes, in order
candidates_of(snapshot, strikes, discount, max_spread, min_mid) ==
    IF strikes = <<>> THEN <<>>
    ELSE candidate_at(snapshot, Head(strikes), discount, max_spread, min_mid)
         \o candidates_of(snapshot, Tail(strikes), discount, max_spread, min_mid)

\* the median of the sorted forwards, n = len(forwards) > 0
median_of(forwards) ==
    LET n == Len(forwards)
    IN  IF n % 2 = 1 THEN forwards[(n \div 2) + 1]
        ELSE RMul(Rat(1, 2), RAdd(forwards[n \div 2], forwards[(n \div 2) + 1]))

ForwardEstimate(forward, n_used, median, min_f, max_f) ==
    [kind |-> "ForwardEstimate", forward |-> forward, n_used |-> n_used,
     median |-> median, min_f |-> min_f, max_f |-> max_f]

\* fewer than 2 candidates
too_few_below_two(candidates) == Len(candidates) < 2

\* len(candidates) < 3, and len(trimmed) < 3
too_few(candidates) == Len(candidates) < 3

estimate_forward_put_call_parity(snapshot, discount, max_spread, trim_pct, min_mid) ==
    LET forwards(cs) == SortReals([i \in 1..Len(cs) |-> cs[i].f])
        trim(cs, median) ==
            LET lo == RMul(median, RSub(One, trim_pct))
                hi == RMul(median, RAdd(One, trim_pct))
                inside == SelectSeq(cs, LAMBDA c : RLe(lo, c.f) /\ RLe(c.f, hi))
            IN  IF too_few(inside) THEN cs ELSE inside
        estimate(trimmed, w_sum, used, median) ==
            IF WSign(w_sum) <= 0 THEN None
            ELSE ForwardEstimate(Quotient(SumFW(trimmed), w_sum), Len(trimmed),
                                 median, used[1], used[Len(used)])
        \* each intermediate list is computed once and named
        from_median(candidates, median) ==
            CHOOSE r \in {estimate(trimmed, SumW(trimmed), forwards(trimmed), median) :
                             trimmed \in {trim(candidates, median)}} : TRUE
        from_candidates(candidates) ==
            IF too_few(candidates) THEN None
            ELSE CHOOSE r \in {from_median(candidates, median) :
                                  median \in {median_of(forwards(candidates))}} : TRUE
        from_strikes(strikes) ==
            IF strikes = <<>> THEN None
            ELSE CHOOSE r \in {from_candidates(candidates) :
                                  candidates \in {candidates_of(snapshot, strikes,
                                      discount, max_spread, min_mid)}} : TRUE
    IN  IF RLe(discount, Zero) THEN ValueError
        ELSE CHOOSE r \in {from_strikes(strikes) :
                              strikes \in {common_strikes(snapshot)}} : TRUE

ForwardArgs(discount, max_spread, trim_pct, min_mid) ==
    [kind |-> "args", discount |-> discount, max_spread |-> max_spread,
     trim_pct |-> trim_pct, min_mid |-> min_mid]

\* estimate_forward_put_call_parity on a given surface
forward_from_input ==
    /\ call_out = Pending
    /\ call_out' = Called("estimate_forward_put_call_parity",
           estimate_forward_put_call_parity(surface, call_in.discount,
               call_in.max_spread, call_in.trim_pct, call_in.min_mid),
           None)
    /\ UNCHANGED <<call_in, bisect, codecVars, storeVars, viewVars, buildVars,
                   eventVars, listenerVars>>

\* -------------------------------------------------------- confidence score
\* A real known to lie in [lo, hi].  math.exp is not a rational function: its
\* value is kept as an enclosure, every other value as an exact one.
Encl(lo, hi) == [kind |-> "enclosure", lo |-> lo, hi |-> hi]
Exactly(x) == Encl(x, x)

RECURSIVE Pow3(_)
Pow3(n) == IF n <= 0 THEN 1 ELSE 3 * Pow3(n - 1)

\* math.exp(x): 1 + x <= e^x for every x; e^x <= 1 / (1 - x) for x < 1;
\* e^x <= 3^n for x <= n
exp(x) ==
    IF x = Zero THEN Exactly(One)
    ELSE IF RLt(x, Zero) THEN Encl(RMax(Zero, RAdd(One, x)), RDiv(One, RSub(One, x)))
    ELSE Encl(RAdd(One, x), Rat(Pow3((x.num \div x.den) + 1), 1))

\* c * x + y on enclosures, c >= 0
EAddScaled(c, x, y) == Encl(RAdd(RMul(c, x.lo), y.lo), RAdd(RMul(c, x.hi), y.hi))

\* max(0.0, min(1.0, x)) on an enclosure
EClamp01(x) == Encl(clamp01(x.lo), clamp01(x.hi))

ConfidenceDiagnostics(agreement, liquidity, monotonicity, spacing) ==
    [kind |-> "ConfidenceDiagnostics", agreement |-> agreement,
     liquidity |-> liquidity, monotonicity |-> monotonicity, spacing |-> spacing]

\* 1. estimator agreement
agreement_score(prob_simple, prob_slope) ==
    IF prob_simple = None \/ prob_slope = None THEN Exactly(Zero)
    ELSE LET delta == RAbs(RSub(prob_simple.prob_above, prob_slope.prob_above))
         IN  exp(RMul(Rat(-5, 1), delta))

\* 2. liquidity / spread quality
liquidity_score(snapshot, strike, max_relative_spread) ==
    LET call == get_call(snapshot, strike)
        put == get_put(snapshot, strike)
        floor == Rat(1, 1000000)
        rel_call == RDiv(Dollars(call.spread), RMax(Dollars(call.mid), floor))
        rel_put == RDiv(Dollars(put.spread), RMax(Dollars(put.mid), floor))
        rel_spread == RMax(rel_call, rel_put)
    IN  IF call = None \/ put = None THEN Exactly(Zero)
        ELSE IF RLe(max_relative_spread, rel_spread) THEN Exactly(Zero)
        ELSE Exactly(RSub(One, RDiv(rel_spread, max_relative_spread)))

\* 3. local monotonicity of the call mids around the nearest call
monotonicity_score(snapshot, strike) ==
    LET calls == snapshot.calls
        i == nearest_index(calls, strike)
        ok == /\ ~(i > 1 /\ calls[i].mid > calls[i - 1].mid)
              /\ ~(i < Len(calls) /\ calls[i].mid < calls[i + 1].mid)
    IN  IF calls = <<>> THEN Exactly(Zero)
        ELSE IF ok THEN Exactly(One) ELSE Exactly(Zero)

\* 4. strike spacing around the nearest call
spacing_score(snapshot, strike) ==
    LET calls == snapshot.calls
        i == nearest_index(calls, strike)
        dk_left == RAbs(RSub(StrikeDollars(calls[i].strike),
                             StrikeDollars(calls[i - 1].strike)))
        dk_right == RAbs(RSub(StrikeDollars(calls[i + 1].strike),
                              StrikeDollars(calls[i].strike)))
        spacing == RMax(dk_left, dk_right)
    IN  IF calls = <<>> THEN Exactly(Zero)
        ELSE IF i <= 1 \/ i >= Len(calls) THEN Exactly(Zero)
        ELSE exp(RMul(Rat(-1, 10), spacing))

compute_confidence(snapshot, strike, prob_simple, prob_slope, max_relative_spread) ==
    LET a == agreement_score(prob_simple, prob_slope)
        l == liquidity_score(snapshot, strike, max_relative_spread)
        m == monotonicity_score(snapshot, strike)
        s == spacing_score(snapshot, strike)
        confidence ==
            EAddScaled(Rat(40, 100), a,
                EAddScaled(Rat(30, 100), l,
                    EAddScaled(Rat(20, 100), m,
                        EAddScaled(Rat(10, 100), s, Exactly(Zero)))))
    IN  [kind |-> "tuple", confidence |-> EClamp01(confidence),
         diagnostics |-> ConfidenceDiagnostics(a, l, m, s)]

ConfidenceArgs(strike, prob_simple, prob_slope, max_relative_spread) ==
    [kind |-> "args", strike |-> strike, prob_simple |-> prob_simple,
     prob_slope |-> prob_slope, max_relative_spread |-> max_relative_spread]

\* compute_confidence on a given surface
confidence_from_input ==
    /\ call_out = Pending
    /\ call_out' = Called("compute_confidence",
           compute_confidence(surface, call_in.strike, call_in.prob_simple,
                              call_in.prob_slope, call_in.max_relative_spread),
           None)
    /\ UNCHANGED <<call_in, bisect, codecVars, storeVars, viewVars, buildVars,
                   eventVars, listenerVars>>

\* ------------------------------------------------------- implied volatility
\* An option price: dollars + pico * 1e-12, so that the slacks 1e-8, 1e-10 and
\* 1e-12 of implied_vol_bisect are exact.  The pico part stays far below one
\* dollar step, so prices are ordered by dollars first.
Money(dollars, pico) == [dollars |-> dollars, pico |-> pico]

MAdd(x, y) == Money(RAdd(x.dollars, y.dollars), x.pico + y.pico)
MSub(x, y) == Money(RSub(x.dollars, y.dollars), x.pico - y.pico)
MLt(x, y) == RLt(x.dollars, y.dollars) \/ (x.dollars = y.dollars /\ x.pico < y.pico)
MLe(x, y) == ~MLt(y, x)
MZero == Money(Zero, 0)
MAbs(x) == IF MLt(x, MZero) THEN MSub(MZero, x) ELSE x

\* the default arguments vol_low = 1e-6, vol_high = 5.0 and tol = 1e-8
VOL_LOW == Rat(1, 1000000)
VOL_HIGH == Rat(5, 1)
TOL == Money(Zero, 10000)

\* the volatility vol_low + (top - vol_low) * n / 2^k, a point of the bisection
\* of [vol_low, top]
Sigma(top, n, k) == [kind |-> "sigma", low |-> VOL_LOW, top |-> top, n |-> n, k |-> k]

RECURSIVE Pow2(_)
Pow2(k) == IF k <= 0 THEN 1 ELSE 2 * Pow2(k - 1)

\* 0.5 * (lo + hi) for two points of the same bisection
SigmaMid(lo, hi) ==
    LET k == (IF lo.k > hi.k THEN lo.k ELSE hi.k) + 1
        n == lo.n * Pow2(k - 1 - lo.k) + hi.n * Pow2(k - 1 - hi.k)
    IN  IF n % 2 = 0 THEN Sigma(lo.top, n \div 2, k - 1) ELSE Sigma(lo.top, n, k)

\* lb, ub of _no_arb_bounds_forward
_no_arb_bounds_forward(option_type, F, K, discount) ==
    IF option_type = "call"
    THEN [lb |-> Money(RMul(discount, RMax(RSub(F, K), Zero)), 0),
          ub |-> Money(RMul(discount, F), 0)]
    ELSE [lb |-> Money(RMul(discount, RMax(RSub(K, F), Zero)), 0),
          ub |-> Money(RMul(discount, K), 0)]

ImpliedVolResult(sigma, iterations, price_fit) ==
    [kind |-> "ImpliedVolResult", sigma |-> sigma, iterations |-> iterations,
     price_fit |-> price_fit]

IvArgs(option_type, price, F, K, T, discount, max_iter) ==
    [kind |-> "args", option_type |-> option_type, price |-> price, F |-> F,
     K |-> K, T |-> T, discount |-> discount, max_iter |-> max_iter]

\* the frame of a call that has reached its while loop
Frame(lo, hi, p_lo, p_hi, it) ==
    [kind |-> "frame", lo |-> lo, hi |-> hi, p_lo |-> p_lo, p_hi |-> p_hi, it |-> it]

\* the call has returned result; priced is bs_price_forward at the sigma
\* returned (None when nothing is returned)
Returns(result, priced) ==
    /\ call_out' = Called("implied_vol_bisect", result, priced)
    /\ bisect' = None

\* abs(price - lb) <= 1e-12
near_intrinsic(price, lb) == MLe(MAbs(MSub(price, lb)), Money(Zero, 1))

\* implied_vol_bisect up to its while loop.  bs_price_forward is increasing in
\* sigma and lies between the no-arbitrage bounds; its values at vol_low, at
\* vol_high and at 1.5 * vol_high are p_low, p_high and p_higher.
iv_enter(p_low, p_high, p_higher) ==
    LET a == call_in
        bounds == _no_arb_bounds_forward(a.option_type, a.F, a.K, a.discount)
        slack == Money(Zero, 100)
        widened == MLt(p_high, a.price)
        top == IF widened THEN RMul(Rat(3, 2), VOL_HIGH) ELSE VOL_HIGH
        p_hi == IF widened THEN p_higher ELSE p_high
    IN  /\ call_out = Pending /\ bisect = None
        /\ MLe(bounds.lb, p_low) /\ MLe(p_low, p_high) /\ MLe(p_high, p_higher)
        /\ MLe(p_higher, bounds.ub)
        /\ IF \/ MLe(a.price, MZero) \/ RLe(a.F, Zero) \/ RLe(a.K, Zero)
              \/ RLe(a.T, Zero) \/ RLe(a.discount, Zero)
           THEN Returns(None, None)
           ELSE IF \/ MLt(a.price, MSub(bounds.lb, slack))
                   \/ MLt(MAdd(bounds.ub, slack), a.price)
           THEN Returns(None, None)
           ELSE IF near_intrinsic(a.price, bounds.lb)
           THEN Returns(ImpliedVolResult(Sigma(VOL_HIGH, 0, 0), 0, bounds.lb), p_low)
           ELSE IF MLt(a.price, p_low) \/ MLt(p_hi, a.price)
           THEN Returns(None, None)
           ELSE IF a.max_iter <= 0
           THEN Returns(ImpliedVolResult(Float(0), 0, MZero), None)
           ELSE /\ bisect' = Frame(Sigma(top, 0, 0), Sigma(top, 1, 0), p_low, p_hi, 0)
                /\ UNCHANGED call_out
        /\ UNCHANGED <<call_in, codecVars, storeVars, viewVars, buildVars, eventVars,
                   listenerVars>>

\* one pass of the while loop; p_mid is bs_price_forward at the midpoint
iv_iterate(p_mid) ==
    /\ bisect # None
    /\ MLe(bisect.p_lo, p_mid) /\ MLe(p_mid, bisect.p_hi)
    /\ LET it == bisect.it + 1
           mid == SigmaMid(bisect.lo, bisect.hi)
           diff == MSub(p_mid, call_in.price)
           result == ImpliedVolResult(mid, it, p_mid)
       IN  IF MLe(MAbs(diff), TOL) THEN Returns(result, p_mid)
           ELSE IF ~(it < call_in.max_iter) THEN Returns(result, p_mid)
           ELSE /\ bisect' = IF MLt(diff, MZero)
                             THEN Frame(mid, bisect.hi, p_mid, bisect.p_hi, it)
                             ELSE Frame(bisect.lo, mid, bisect.p_lo, p_mid, it)
                /\ UNCHANGED call_out
    /\ UNCHANGED <<call_in, codecVars, storeVars, viewVars, buildVars, eventVars,
                   listenerVars>>

\* ----------------------------------------------------- SVI and spline models
\* trim_pct = 0.02 and min_mid = 1e-6, the defaults
TRIM_PCT == Rat(2, 100)
MIN_MID == Rat(1, 1000000)

\* fewer than 7 strikes or points
too_few_points_below_seven(xs) == Len(xs) < 7

\* len(strikes) < 8, and len(ks) < 8
too_few_points(xs) == Len(xs) < 8

\* The loop body of _extract_otm_iv_points for the strike K: <<K>> when a
\* point (k, w, weight) is appended, <<>> when the strike is skipped.
\* implied_vol_bisect returns None for a price above the no-arbitrage bound
\* (call: D * F, put: D * K; lb is 0 for the out-of-the-money side) and for
\* the strikes of no_iv, where the pricer gives no bracket; elsewhere it
\* returns a sigma > 0, so that w = sigma^2 * T > 0.
otm_iv_point(snapshot, K, F, T, discount, max_spread, min_mid, no_iv) ==
    LET call == get_call(snapshot, K)
        put == get_put(snapshot, K)
        is_put == QCompare(F, StrikeDollars(K)) > 0
        chosen == IF is_put THEN put ELSE call
        price == Dollars(chosen.mid)
        above_ub == IF is_put THEN RLt(RMul(discount, StrikeDollars(K)), price)
                    ELSE QCompare(F, RDiv(price, discount)) < 0
        iv_is_none == \/ RLe(price, Zero) \/ QCompare(F, Zero) <= 0 \/ K <= 0
                      \/ RLe(T, Zero) \/ RLe(discount, Zero)
                      \/ above_ub
                      \/ K \in no_iv
    IN  IF call = None \/ put = None THEN <<>>
        ELSE IF /\ max_spread # None
                /\ (call.spread > max_spread.value \/ put.spread > max_spread.value)
             THEN <<>>
        ELSE IF RLe(price, min_mid) \/ chosen.spread < 0 THEN <<>>
        ELSE IF iv_is_none THEN <<>>
        ELSE <<K>>

RECURSIVE otm_iv_points(_, _, _, _, _, _, _, _)
\* the strikes whose point is appended, in order
otm_iv_points(snapshot, strikes, F, T, discount, max_spread, min_mid, no_iv) ==
    IF strikes = <<>> THEN <<>>
    ELSE otm_iv_point(snapshot, Head(strikes), F, T, discount, max_spread, min_mid, no_iv)
         \o otm_iv_points(snapshot, Tail(strikes), F, T, discount, max_spread,
                          min_mid, no_iv)

\* _extract_otm_iv_points: None, or the strikes of the points extracted
_extract_otm_iv_points(snapshot, F, T, discount, max_spread, min_mid, no_iv) ==
    LET from_points(ks) ==
            IF too_few_points(ks) THEN None ELSE [kind |-> "points", k |-> ks]
        from_strikes(strikes) ==
            IF too_few_points(strikes) THEN None
            ELSE CHOOSE r \in {from_points(ks) :
                                  ks \in {otm_iv_points(snapshot, strikes, F, T, discount,
                                                        max_spread, min_mid, no_iv)}} : TRUE
    IN  CHOOSE r \in {from_strikes(strikes) : strikes \in {common_strikes(snapshot)}} : TRUE

FitResult(forward, n_points) ==
    [kind |-> "FitResult", forward |-> forward, n_points |-> n_points]

\* build_svi_model; converges is res.success of the L-BFGS-B fit
build_svi_model(snapshot, T, discount, max_spread, trim_pct, no_iv, converges) ==
    LET fitted(f_est, pts) ==
            IF pts = None THEN None
            ELSE IF ~converges THEN None
            ELSE [kind |-> "SVIModel", fit |-> FitResult(f_est.forward, Len(pts.k)),
                  T |-> T, discount |-> discount]
        from_forward(f_est) ==
            IF f_est = None THEN None
            ELSE CHOOSE m \in {fitted(f_est, pts) :
                                  pts \in {_extract_otm_iv_points(snapshot, f_est.forward, T,
                                               discount, max_spread, MIN_MID, no_iv)}} : TRUE
    IN  CHOOSE m \in {from_forward(f_est) :
                         f_est \in {estimate_forward_put_call_parity(snapshot, discount,
                                        max_spread, trim_pct, MIN_MID)}} : TRUE

\* build_spline_model
build_spline_model(snapshot, T, discount, max_spread, trim_pct, no_iv) ==
    LET fitted(f_est, pts) ==
            IF pts = None THEN None
            ELSE [kind |-> "SplineModel", fit |-> FitResult(f_est.forward, Len(pts.k)),
                  T |-> T, discount |-> discount]
        from_forward(f_est) ==
            IF f_est = None THEN None
            ELSE CHOOSE m \in {fitted(f_est, pts) :
                                  pts \in {_extract_otm_iv_points(snapshot, f_est.forward, T,
                                               discount, max_spread, MIN_MID, no_iv)}} : TRUE
    IN  CHOOSE m \in {from_forward(f_est) :
                         f_est \in {estimate_forward_put_call_parity(snapshot, discount,
                                        max_spread, trim_pct, MIN_MID)}} : TRUE

SmileArgs(T, discount, max_spread, trim_pct, no_iv, converges) ==
    [kind |-> "args", T |-> T, discount |-> discount, max_spread |-> max_spread,
     trim_pct |-> trim_pct, no_iv |-> no_iv, converges |-> converges]

\* build_svi_model on a given surface
svi_from_input ==
    /\ call_out = Pending
    /\ call_out' = Called("build_svi_model",
           build_svi_model(surface, call_in.T, call_in.discount, call_in.max_spread,
                           call_in.trim_pct, call_in.no_iv, call_in.converges),
           None)
    /\ UNCHANGED <<call_in, bisect, codecVars, storeVars, viewVars, buildVars,
                   eventVars, listenerVars>>

\* build_spline_model on a given surface
spline_from_input ==
    /\ call_out = Pending
    /\ call_out' = Called("build_spline_model",
           build_spline_model(surface, call_in.T, call_in.discount, call_in.max_spread,
                              call_in.trim_pct, call_in.no_iv),
           None)
    /\ UNCHANGED <<call_in, bisect, codecVars, storeVars, viewVars, buildVars,
                   eventVars, listenerVars>>

\* ------------------------------------------------------------- event store
DIGITS == <<"0", "1", "2", "3", "4", "5", "6", "7", "8", "9">>

RECURSIVE ZeroPad(_, _)
\* the decimal digits of n, zero-padded to width characters
ZeroPad(n, width) ==
    IF width = 0 THEN <<>>
    ELSE ZeroPad(n \div 10, width - 1) \o <<DIGITS[(n % 10) + 1]>>

Str(s) == [kind |-> "str", value |-> s]

\* raised by response.raise_for_status() and by session.get(timeout=30)
HTTPError == [kind |-> "HTTPError"]
Timeout == [kind |-> "Timeout"]

MarketMetadata(strike_price, yes_price, no_price) ==
    [kind |-> "MarketMetadata", strike_price |-> strike_price,
     yes_price |-> yes_price, no_price |-> no_price]

EventMetadata(symbol, end_date, markets) ==
    [kind |-> "EventMetadata", symbol |-> symbol, end_date |-> end_date,
     markets |-> markets]

\* if event.symbol
has_symbol(event) == event.symbol # None /\ event.symbol # Str(<<>>)

RECURSIVE new_events_of(_)
\* refresh, lines 54-59: the fetched events that carry a symbol, grouped by
\* symbol in fetch order
new_events_of(events) ==
    IF events = <<>> THEN EmptyDict
    ELSE LET new_events == new_events_of(SubSeq(events, 1, Len(events) - 1))
             event == events[Len(events)]
             key == event.symbol.value
             list == IF key \in DictKeys(new_events) THEN DictGet(new_events, key)
                     ELSE <<>>
         IN  IF has_symbol(event) THEN DictSet(new_events, key, Append(list, event))
             ELSE new_events

RECURSIVE total_events(_)
\* sum(len(v) for v in self._events.values())
total_events(events) ==
    IF events = <<>> THEN 0
    ELSE Len(events[1].value) + total_events(Tail(events))

\* self._events.get(symbol, [])
EventStore_get_by_symbol_result(events, symbol) ==
    IF symbol \in DictKeys(events) THEN DictGet(events, symbol) ELSE <<>>

RECURSIVE EventStore_get_all_result(_)
\* [event for events in self._events.values() for event in events]
EventStore_get_all_result(events) ==
    IF events = <<>> THEN <<>>
    ELSE events[1].value \o EventStore_get_all_result(Tail(events))

\* next((market for market in markets if market.strike_price == strike_price), None)
first_market(markets, strike_price) ==
    LET hits == SelectSeq(markets, LAMBDA m : m.strike_price = Float(strike_price))
    IN  IF hits = <<>> THEN None ELSE hits[1]

\* get_market looking through every event of the symbol with the end_date
get_market_result_any_event(events, symbol, end_date, strike_price) ==
    LET evs == EventStore_get_by_symbol_result(events, symbol)
        hits == SelectSeq(evs, LAMBDA e :
                    /\ e.end_date = Str(end_date)
                    /\ e.markets # None /\ e.markets # List(<<>>)
                    /\ first_market(e.markets.items, strike_price) # None)
    IN  IF hits = <<>> THEN None ELSE first_market(hits[1].markets.items, strike_price)

\* get_market: the first event with the end_date and a non-empty market list
\* decides
get_market_result(events, symbol, end_date, strike_price) ==
    LET evs == EventStore_get_by_symbol_result(events, symbol)
        hits == SelectSeq(evs, LAMBDA e :
                    /\ e.end_date = Str(end_date)
                    /\ e.markets # None /\ e.markets # List(<<>>))
    IN  IF hits = <<>> THEN None ELSE first_market(hits[1].markets.items, strike_price)

\* get_polymarket_prob with "above" as the default direction
get_polymarket_prob_result_default_above(events, symbol, end_date, strike_price, direction) ==
    LET market == get_market_result(events, symbol, end_date, strike_price)
    IN  IF market = None THEN None
        ELSE IF direction = Str("below") THEN market.no_price
        ELSE market.yes_price

\* get_polymarket_prob; direction is "above", "below" or None
get_polymarket_prob_result(events, symbol, end_date, strike_price, direction) ==
    LET market == get_market_result(events, symbol, end_date, strike_price)
    IN  IF market = None THEN None
        ELSE IF direction = Str("above") THEN market.yes_price
        ELSE market.no_price

EventStore_get_by_symbol(symbol) ==
    Read("EventStore.get_by_symbol", [kind |-> "args", symbol |-> symbol],
         List(EventStore_get_by_symbol_result(_events, symbol)))

EventStore_get_all ==
    Read("EventStore.get_all", None, List(EventStore_get_all_result(_events)))

get_market(symbol, end_date, strike_price) ==
    Read("EventStore.get_market",
         [kind |-> "args", symbol |-> symbol, end_date |-> end_date,
          strike_price |-> strike_price],
         get_market_result(_events, symbol, end_date, strike_price))

get_polymarket_prob(symbol, end_date, strike_price, direction) ==
    Read("EventStore.get_polymarket_prob",
         [kind |-> "args", symbol |-> symbol, end_date |-> end_date,
          strike_price |-> strike_price, direction |-> direction],
         get_polymarket_prob_result(_events, symbol, end_date, strike_price, direction))

last_refresh == Read("EventStore.last_refresh", None, _last_refresh)

\* EventStore.clear, called on the event loop
EventStore_clear ==
    /\ _events' = EmptyDict
    /\ _last_refresh' = None
    /\ op' = "EventStore.clear"
    /\ arg' = None
    /\ ret' = None
    /\ UNCHANGED <<_states, last_accepted, max_ts, loop_pc, attempts, clock, fetched,
                   before, viewVars, codecVars, buildVars, modelerVars, listenerVars>>

\* except clause naming only HTTPError
except_Exception_http_only(exc) == exc = HTTPError

\* except Exception: every exception fetch_stock_events raises derives from it
except_Exception(exc) == exc \in {HTTPError, Timeout, ValueError}

\* asyncio.sleep(self._refresh_interval_seconds): one interval later
after_interval(now) == IF now < MaxTs THEN now + 1 ELSE now

\* a refresh that empties the cache before it fetches
refresh_fetch_resetting(outcome) ==
    /\ loop_pc = "start"
    /\ before' = [kind |-> "before", events |-> _events,
                  last_refresh |-> _last_refresh,
                  raised |-> (fetched # None /\ fetched.kind # "list")]
    /\ fetched' = outcome
    /\ attempts' = 1 - attempts
    /\ loop_pc' = IF outcome.kind = "list" THEN "assign"
                  ELSE IF except_Exception(outcome) THEN "except"
                  ELSE "raised"
    /\ op' = "EventStore.refresh"
    /\ arg' = None
    /\ ret' = IF outcome.kind = "list" THEN Pending ELSE outcome
    /\ _events' = EmptyDict
    /\ _last_refresh' = None
    /\ UNCHANGED <<clock, _states, last_accepted, max_ts,
                   viewVars, codecVars, buildVars, modelerVars, listenerVars>>

\* The loop calls refresh in a worker thread; refresh starts with
\* events = fetch_stock_events(), which returns a list or raises.  A raise
\* ends refresh before any assignment and reaches the try of the loop.
refresh_fetch(outcome) ==
    /\ loop_pc = "start"
    /\ before' = [kind |-> "before", events |-> _events,
                  last_refresh |-> _last_refresh,
                  raised |-> (fetched # None /\ fetched.kind # "list")]
    /\ fetched' = outcome
    /\ attempts' = 1 - attempts
    /\ loop_pc' = IF outcome.kind = "list" THEN "assign"
                  ELSE IF except_Exception(outcome) THEN "except"
                  ELSE "raised"
    /\ op' = "EventStore.refresh"
    /\ arg' = None
    /\ ret' = IF outcome.kind = "list" THEN Pending ELSE outcome
    /\ UNCHANGED <<_events, _last_refresh, clock, _states, last_accepted, max_ts,
                   viewVars, codecVars, buildVars, modelerVars, listenerVars>>

\* a refresh that fills self._events in place, event by event
refresh_assign_in_place ==
    /\ loop_pc = "assign"
    /\ \E n \in 0..Len(fetched.items) :
           /\ _events' = new_events_of(SubSeq(fetched.items, 1, n))
           /\ loop_pc' = IF n = Len(fetched.items) THEN "stamp" ELSE "assign"
    /\ UNCHANGED <<_last_refresh, attempts, clock, fetched, before, storeVars,
                   viewVars, codecVars, buildVars, modelerVars, listenerVars>>

\* refresh, lines 54-61: new_events is built apart and self._events is bound
\* to it in one assignment
refresh_assign ==
    /\ loop_pc = "assign"
    /\ _events' = new_events_of(fetched.items)
    /\ loop_pc' = "stamp"
    /\ UNCHANGED <<_last_refresh, attempts, clock, fetched, before, storeVars,
                   viewVars, codecVars, buildVars, modelerVars, listenerVars>>

\* refresh, lines 63-66: the count, the time stamp and the return
refresh_stamp ==
    /\ loop_pc = "stamp"
    /\ _last_refresh' = IntValue(clock)
    /\ op' = "EventStore.refresh"
    /\ arg' = None
    /\ ret' = IntValue(total_events(_events))
    /\ loop_pc' = "sleep"
    /\ UNCHANGED <<_events, _states, last_accepted, max_ts, attempts, clock, fetched,
                   before, viewVars, codecVars, buildVars, modelerVars, listenerVars>>

\* start_refresh_loop, lines 73-74: logger.exception
log_exception ==
    /\ loop_pc = "except"
    /\ loop_pc' = "sleep"
    /\ UNCHANGED <<_events, _last_refresh, attempts, clock, fetched, before,
                   storeVars, viewVars, codecVars, buildVars, modelerVars,
                   listenerVars>>

\* start_refresh_loop, line 75, and the next pass of while True
sleep ==
    /\ loop_pc = "sleep"
    /\ clock' = after_interval(clock)
    /\ loop_pc' = "start"
    /\ UNCHANGED <<_events, _last_refresh, attempts, fetched, before, storeVars,
                   viewVars, codecVars, buildVars, modelerVars, listenerVars>>

\* datetime.isoformat() of an aware UTC datetime: YYYY-MM-DDTHH:MM:SS+00:00
isoformat(dt) ==
    ZeroPad(dt.year, 4) \o <<"-">> \o ZeroPad(dt.month, 2) \o <<"-">>
        \o ZeroPad(dt.day, 2) \o <<"T">> \o ZeroPad(dt.hour, 2) \o <<":">>
        \o ZeroPad(dt.minute, 2) \o <<":">> \o ZeroPad(dt.second, 2)
        \o (IF dt.tzinfo = "UTC" THEN <<"+", "0", "0", ":", "0", "0">> ELSE <<>>)

\* s.replace("+00:00", "Z"); "+" occurs in an isoformat string only where
\* the offset starts
replace_utc_offset(s) ==
    IF Len(s) >= 6 /\ SubSeq(s, Len(s) - 5, Len(s)) = <<"+", "0", "0", ":", "0", "0">>
    THEN SubSeq(s, 1, Len(s) - 6) \o <<"Z">>
    ELSE s

\* ------------------------------------------------------------------ engine
\* SVIModel.prob_above and SplineModel.prob_above.  implied_vol starts with
\* log(K / F), which raises ValueError (math domain error) unless K / F > 0;
\* F is never 0 here, the estimator returns a forward > 0.  Otherwise sigma
\* is > 0 and p, the value of _norm_cdf(d2), is clamped.
SmileModel_prob_above(model, K, p) ==
    LET F == model.fit.forward
        ratio_positive == \/ K > 0 /\ QCompare(F, Zero) > 0
                          \/ K < 0 /\ QCompare(F, Zero) < 0
    IN  IF ~ratio_positive THEN ValueError ELSE clamp01(p)

ModelPrediction(model_name, prob_above, forward, extra) ==
    [kind |-> "ModelPrediction", model_name |-> model_name,
     prob_above |-> prob_above, forward |-> forward, extra |-> extra]

ExpiryPredictions(expiration_date, tte_days, strike_price, predictions) ==
    [kind |-> "ExpiryPredictions", expiration_date |-> expiration_date,
     tte_days |-> tte_days, strike_price |-> strike_price,
     predictions |-> predictions]

\* None if isnan(prob) else prob
none_if_nan(prob) == IF prob = NaN THEN None ELSE prob

\* run_models_for_expiry, lines 81-91 and 94-104: the entry of a smile
\* model, or ValueError when prob_above raises
smile_prediction(model_name, T, model, strike, p) ==
    IF RLt(Zero, T) /\ model # None
    THEN LET prob == SmileModel_prob_above(model, strike, p)
         IN  IF prob = ValueError THEN ValueError
             ELSE ModelPrediction(model_name, prob, model.fit.forward,
                                  [n_points |-> model.fit.n_points])
    ELSE ModelPrediction(model_name, None, None, None)

\* run_models_for_expiry, lines 107-118: the polymarket entry
polymarket_prediction(events, symbol, expiration_date, strike) ==
    LET exp_iso == replace_utc_offset(isoformat(expiration_date))
        evs == EventStore_get_by_symbol_result(events, symbol)
        hits == SelectSeq(evs, LAMBDA e : e.end_date = Str(exp_iso))
        pm_end_date == IF hits = <<>> THEN None ELSE hits[1].end_date
    IN  IF pm_end_date # None /\ pm_end_date # Str(<<>>)
        THEN ModelPrediction("polymarket",
                 get_polymarket_prob_result(events, symbol, pm_end_date.value, strike,
                                            Str("above")),
                 None, None)
        ELSE ModelPrediction("polymarket", None, None, None)

EngineArgs(symbol, expiration_date, strike, max_spread, has_event_store) ==
    [kind |-> "args", symbol |-> symbol, expiration_date |-> expiration_date,
     strike |-> strike, max_spread |-> max_spread,
     has_event_store |-> has_event_store]

\* What the call meets outside its arguments: tte_days is
\* (expiration_date.date() - today).days; no_iv, converges, p_svi and
\* p_spline are what the numeric library code yields: the strikes without an
\* implied volatility, res.success of the SVI fit, and N(d2) of either model.
Numerics(tte_days, no_iv, converges, p_svi, p_spline) ==
    [kind |-> "numerics", tte_days |-> tte_days, no_iv |-> no_iv,
     converges |-> converges, p_svi |-> p_svi, p_spline |-> p_spline]

\* run_models_for_expiry on the states the store returns for the symbol:
\* the ExpiryPredictions returned, or the exception raised
run_models_result(states, events, args, env) ==
    LET T == Rat(env.tte_days, 365)
        predictions(snapshot, fwd_est, svi_model, spline_model) ==
            LET forward == IF fwd_est # None THEN fwd_est.forward ELSE None
                simple == ModelPrediction("simple",
                              none_if_nan(SimpleModel_prob_above(snapshot, args.max_spread,
                                                                 args.strike)),
                              forward, None)
                slope == ModelPrediction("slope",
                             none_if_nan(SlopeModel_prob_above(snapshot, 1, One,
                                                               args.max_spread, args.strike)),
                             forward, None)
                svi == smile_prediction("svi", T, svi_model, args.strike, env.p_svi)
                spline == smile_prediction("spline", T, spline_model, args.strike,
                                           env.p_spline)
                polymarket == IF args.has_event_store
                              THEN <<polymarket_prediction(events, args.symbol,
                                         args.expiration_date, args.strike)>>
                              ELSE <<>>
            IN  IF svi = ValueError \/ spline = ValueError THEN ValueError
                ELSE ExpiryPredictions(args.expiration_date, env.tte_days, args.strike,
                                       <<simple, slope, svi, spline>> \o polymarket)
        \* the snapshot, the forward and the two fitted models are each
        \* computed once and named
        from_snapshot(snapshot) ==
            CHOOSE r \in {predictions(snapshot, fwd_est, svi_model, spline_model) :
                fwd_est \in {estimate_forward_put_call_parity(snapshot, One,
                                 args.max_spread, TRIM_PCT, MIN_MID)},
                svi_model \in {IF RLt(Zero, T)
                               THEN build_svi_model(snapshot, T, One, args.max_spread,
                                                    TRIM_PCT, env.no_iv, env.converges)
                               ELSE None},
                spline_model \in {IF RLt(Zero, T)
                                  THEN build_spline_model(snapshot, T, One,
                                           args.max_spread, TRIM_PCT, env.no_iv)
                                  ELSE None}} : TRUE
    IN  CHOOSE r \in {from_snapshot(snapshot) :
            snapshot \in {build_surface_snapshot(
                              get_by_symbol_result(states, args.symbol), args.symbol,
                              args.expiration_date, args.max_spread)}} : TRUE

\* run_models_for_expiry: reads the store, builds the snapshot, runs the
\* models and returns (or raises)
run_models_for_expiry(args, env) ==
    /\ call_out = Pending
    /\ call_in' = [kind |-> "call", store |-> _states, args |-> args, env |-> env]
    /\ states_in' = get_by_symbol_result(_states, args.symbol)
    /\ build_args' = BuildArgs(args.symbol, args.expiration_date, args.max_spread)
    /\ surface' = build_surface_snapshot(states_in', args.symbol,
                      args.expiration_date, args.max_spread)
    /\ call_out' = Called("run_models_for_expiry",
                          run_models_result(_states, _events, args, env), None)
    /\ UNCHANGED <<bisect, storeVars, viewVars, codecVars, eventVars, listenerVars>>

\* ------------------------------------------------- event store, direct calls
\* datetime.now(UTC) moves on between calls
time_passes ==
    /\ clock < MaxTs
    /\ clock' = clock + 1
    /\ UNCHANGED <<_events, _last_refresh, loop_pc, attempts, fetched, before,
                   storeVars, viewVars, codecVars, buildVars, modelerVars,
                   listenerVars>>

\* a refresh that adds the fetched events to the ones already stored
EventStore_refresh_merging(outcome) ==
    /\ before' = [kind |-> "before", events |-> _events,
                  last_refresh |-> _last_refresh,
                  raised |-> (fetched # None /\ fetched.kind # "list")]
    /\ fetched' = outcome
    /\ op' = "EventStore.refresh"
    /\ arg' = None
    /\ IF outcome.kind = "list"
       THEN /\ _events' = new_events_of(EventStore_get_all_result(_events)
                                        \o outcome.items)
            /\ _last_refresh' = IntValue(clock)
            /\ ret' = IntValue(total_events(_events'))
       ELSE /\ ret' = outcome
            /\ UNCHANGED <<_events, _last_refresh>>
    /\ UNCHANGED <<loop_pc, attempts, clock, _states, last_accepted, max_ts,
                   viewVars, codecVars, buildVars, modelerVars, listenerVars>>

\* EventStore.refresh called directly, as run_models.main does: the whole
\* call, returning the count or raising what fetch_stock_events raised
EventStore_refresh(outcome) ==
    /\ before' = [kind |-> "before", events |-> _events,
                  last_refresh |-> _last_refresh,
                  raised |-> (fetched # None /\ fetched.kind # "list")]
    /\ fetched' = outcome
    /\ op' = "EventStore.refresh"
    /\ arg' = None
    /\ IF outcome.kind = "list"
       THEN /\ _events' = new_events_of(outcome.items)
            /\ _last_refresh' = IntValue(clock)
            /\ ret' = IntValue(total_events(_events'))
       ELSE /\ ret' = outcome
            /\ UNCHANGED <<_events, _last_refresh>>
    /\ UNCHANGED <<loop_pc, attempts, clock, _states, last_accepted, max_ts,
                   viewVars, codecVars, buildVars, modelerVars, listenerVars>>

\* ---------------------------------------------------------------- listener
\* massive.websocket.models.EquityQuote, and a message of another class
EquityQuote(event_type, symbol, bid_price, ask_price, timestamp) ==
    [kind |-> "EquityQuote", event_type |-> event_type, symbol |-> symbol,
     bid_price |-> bid_price, ask_price |-> ask_price, timestamp |-> timestamp]

EquityTrade == [kind |-> "EquityTrade", event_type |-> Str(<<"T">>)]

\* asyncio.Queue(maxsize): maxsize <= 0 is an unbounded queue
Queue(maxsize, items) == [kind |-> "Queue", maxsize |-> maxsize, items |-> items]

QueueFull == [kind |-> "QueueFull"]
CancelledError == [kind |-> "CancelledError"]
RuntimeError == [kind |-> "RuntimeError"]
ConnectionError == [kind |-> "ConnectionError"]

WebSocketClient(open) == [kind |-> "WebSocketClient", open |-> open]

\* msg.bid_price or 0.0
or_zero(price) == IF price = None \/ price.value = 0 THEN 0 ELSE price.value

\* datetime.fromtimestamp(timestamp / 1000, tz=UTC): the instant, in the unit
\* of the time stamps; it raises for an instant after the last datetime,
\* which MaxTs stands for
fromtimestamp(timestamp) ==
    IF timestamp.value > MaxTs THEN ValueError ELSE IntValue(timestamp.value)

\* Queue.full()
full(queue) == queue.maxsize > 0 /\ Len(queue.items) >= queue.maxsize

\* what became of a quote that was offered to the store
Offer(quote, accepted, queued) ==
    [quote |-> quote, accepted |-> accepted, queued |-> queued]

\* the frame of _handle_message: the store, the queue, the counter, and the
\* history of offers and of exceptions logged
HandlerFrame(states, queue, msg_count, offers, logged) ==
    [states |-> states, queue |-> queue, msg_count |-> msg_count,
     offers |-> offers, logged |-> logged]

\* _handle_message, lines 140-179: the body of the for loop for one message
\* (the quote and the outcome of apply_quote are computed once and named)
handle_one(frame, msg) ==
    LET counted == [frame EXCEPT !.msg_count = @ + 1]
        applied(quote, out) ==
            LET stored == [counted EXCEPT !.states = out.states]
            IN  IF out.ret = ValueError
                THEN [counted EXCEPT !.logged = Append(@, ValueError)]
                ELSE IF frame.queue = None
                THEN [stored EXCEPT !.offers = Append(@,
                          Offer(quote, out.ret # None, FALSE))]
                ELSE IF full(frame.queue)
                THEN [stored EXCEPT
                          !.offers = Append(@, Offer(quote, out.ret # None, FALSE)),
                          !.logged = Append(@, QueueFull)]
                ELSE [stored EXCEPT
                          !.offers = Append(@, Offer(quote, out.ret # None, TRUE)),
                          !.queue = Queue(@.maxsize, Append(@.items, quote))]
        offer(quote) ==
            CHOOSE next \in {applied(quote, out) :
                                out \in {apply_quote_call(frame.states, quote)}} : TRUE
        timed(ts) ==
            IF ts = ValueError THEN [counted EXCEPT !.logged = Append(@, ValueError)]
            ELSE CHOOSE next \in {offer(quote) :
                     quote \in {[occ_symbol |-> msg.symbol.value,
                                 bid |-> or_zero(msg.bid_price),
                                 ask |-> or_zero(msg.ask_price),
                                 ts |-> ts.value]}} : TRUE
    IN  IF msg.kind # "EquityQuote" THEN frame
        ELSE IF msg.event_type # Str(<<"Q">>) THEN frame
        ELSE IF msg.symbol = None THEN counted
        ELSE IF msg.timestamp = None THEN counted
        ELSE CHOOSE next \in {timed(ts) : ts \in {fromtimestamp(msg.timestamp)}} : TRUE

RECURSIVE handle_all_until_raise(_, _)
RECURSIVE handle_all(_, _)
\* a for loop that the first exception ends
handle_all_until_raise(frame, messages) ==
    IF messages = <<>> \/ frame.logged # <<>> THEN frame
    ELSE CHOOSE done \in {handle_all_until_raise(next, Tail(messages)) :
                             next \in {handle_one(frame, Head(messages))}} : TRUE

\* for msg in messages
handle_all(frame, messages) ==
    IF messages = <<>> THEN frame
    ELSE CHOOSE done \in {handle_all(next, Tail(messages)) :
                             next \in {handle_one(frame, Head(messages))}} : TRUE

\* the history variables of the store after the offers of a batch
last_accepted_after(last, offers) ==
    LET acc == SelectSeq(offers, LAMBDA o : o.accepted)
        ids == {acc[i].quote.occ_symbol : i \in 1..Len(acc)}
    IN  {q \in last : q.occ_symbol \notin ids}
            \cup {acc[i].quote : i \in {k \in 1..Len(acc) : \A j \in (k + 1)..Len(acc) :
                                           acc[j].quote.occ_symbol # acc[k].quote.occ_symbol}}

max_ts_after(max, offers) ==
    LET acc == SelectSeq(offers, LAMBDA o : o.accepted)
        ids == {acc[i].quote.occ_symbol : i \in 1..Len(acc)}
        seen(id) == {m.ts : m \in {n \in max : n.occ_symbol = id}}
                        \cup {acc[i].quote.ts : i \in {k \in 1..Len(acc) :
                                                        acc[k].quote.occ_symbol = id}}
    IN  {m \in max : m.occ_symbol \notin ids}
            \cup {[occ_symbol |-> id,
                   ts |-> CHOOSE t \in seen(id) : \A u \in seen(id) : u <= t] : id \in ids}

\* OptionsQuoteListener(state_store=..., event_queue=..., option_symbols=...)
\* is constructed and run is called: without subscriptions it raises, else
\* it creates the client and awaits client.connect
run(option_symbols) ==
    /\ run_pc = "new"
    /\ IF option_symbols = <<>>
       THEN /\ run_pc' = "raised"
            /\ run_outcome' = RuntimeError
            /\ UNCHANGED _client
       ELSE /\ run_pc' = "connect"
            /\ _client' = WebSocketClient(TRUE)
            /\ UNCHANGED run_outcome
    /\ UNCHANGED <<event_queue, _msg_count, batch, offered, took, storeVars, viewVars,
                   codecVars, buildVars, modelerVars, eventVars>>

\* client.connect calls the processor with a batch of messages; the handler
\* has no await, so that the batch is handled in one step
_handle_message(messages) ==
    /\ run_pc = "connect"
    /\ _client.open
    /\ _msg_count + Len(messages) <= MaxMsgs
    /\ LET done == handle_all(HandlerFrame(_states, event_queue, _msg_count, <<>>, <<>>),
                              messages)
       IN  /\ _states' = done.states
           /\ event_queue' = done.queue
           /\ _msg_count' = done.msg_count
           /\ offered' = offered \o done.offers
           /\ batch' = [kind |-> "batch", messages |-> messages, states |-> _states,
                        queue |-> event_queue, logged |-> done.logged]
           /\ last_accepted' = last_accepted_after(last_accepted, done.offers)
           /\ max_ts' = max_ts_after(max_ts, done.offers)
           /\ view' = IF view_obj = "SelfStates" THEN done.states ELSE view
    /\ op' = "_handle_message"
    /\ arg' = List(messages)
    /\ ret' = None
    /\ UNCHANGED <<_client, run_pc, run_outcome, took, view_obj, codecVars, buildVars,
                   modelerVars, eventVars>>

\* a consumer of the queue takes the next event (Queue.get_nowait) and looks
\* its identifier up in the store
consumer_get ==
    /\ event_queue # None
    /\ event_queue.items # <<>>
    /\ event_queue' = Queue(event_queue.maxsize, Tail(event_queue.items))
    /\ took' = LET queued == {i \in 1..Len(offered) : offered[i].queued}
               IN  CHOOSE i \in queued :
                       Cardinality({j \in queued : j >= i}) = Len(event_queue.items)
    /\ op' = "Queue.get_nowait"
    /\ arg' = None
    /\ ret' = [kind |-> "taken", quote |-> Head(event_queue.items),
               state |-> DictGet(_states, Head(event_queue.items).occ_symbol)]
    /\ UNCHANGED <<_states, last_accepted, max_ts, _msg_count, _client, run_pc,
                   run_outcome, batch, offered, viewVars, codecVars, buildVars,
                   modelerVars, eventVars>>

\* The task awaiting client.connect is cancelled: CancelledError is raised
\* at the await of line 197, the except clause of line 198 logs it, the
\* finally clause logs, and run returns.  Whether the connection is closed
\* by then is up to the client library.
cancel(closed) ==
    /\ run_pc = "connect"
    /\ run_pc' = "cancelled"
    /\ run_outcome' = None
    /\ _client' = WebSocketClient(_client.open /\ ~closed)
    /\ UNCHANGED <<event_queue, _msg_count, batch, offered, took, storeVars, viewVars,
                   codecVars, buildVars, modelerVars, eventVars>>

\* client.connect ends by itself: it returns, or raises an exception other
\* than CancelledError, which leaves run through the finally clause
connect_ends(outcome) ==
    /\ run_pc = "connect"
    /\ run_pc' = "ended"
    /\ run_outcome' = outcome
    /\ _client' = WebSocketClient(FALSE)
    /\ UNCHANGED <<event_queue, _msg_count, batch, offered, took, storeVars, viewVars,
                   codecVars, buildVars, modelerVars, eventVars>>

\* OptionsQuoteListener.close
close ==
    /\ _client # None
    /\ _client' = WebSocketClient(FALSE)
    /\ UNCHANGED <<event_queue, _msg_count, run_pc, run_outcome, batch, offered, took,
                   storeVars, viewVars, codecVars, buildVars, modelerVars, eventVars>>

\* ------------------------------------------------------------ command line
ConfigurationError == [kind |-> "ConfigurationError"]

Date(year, month, day) == [kind |-> "date", year |-> year, month |-> month, day |-> day]

\* datetime.date()
date_of(dt) == Date(dt.year, dt.month, dt.day)

\* date.toordinal, counted from the last day of 2024
toordinal(d) ==
    Cardinality({<<y, m, j>> \in (2025..(d.year - 1)) \X (1..12) \X (1..31) :
                     j <= DaysInMonth(y, m)})
        + Cardinality({<<m, j>> \in (1..(d.month - 1)) \X (1..31) :
                           j <= DaysInMonth(d.year, m)})
        + d.day

\* str.strip: the characters between the first and the last that is not
\* white space
strip(s) ==
    LET inked == {i \in 1..Len(s) : s[i] \notin {" ", LF}}
    IN  IF inked = {} THEN <<>>
        ELSE SubSeq(s, CHOOSE i \in inked : \A j \in inked : i <= j,
                       CHOOSE i \in inked : \A j \in inked : j <= i)

\* read_docker_secret on what /run/secrets/<name> holds: None when it is
\* not a file, else its text
read_docker_secret(secret_file) ==
    IF secret_file = None THEN None
    ELSE LET value == strip(secret_file.value)
         IN  IF value # <<>> THEN Str(value) ELSE None

\* load_required_secret: the secret file first, then the environment
load_required_secret(secret_file, environ) ==
    LET docker == read_docker_secret(secret_file)
        value == IF docker # None THEN docker ELSE environ
    IN  IF value = None \/ value.value = <<>> THEN ConfigurationError ELSE value

\* one item of the chain the REST client yields, with the bid and ask that
\* lines 186-194 take from it (0 when it has neither quote nor close)
ChainItem(ticker, bid, ask) ==
    [kind |-> "OptionContractSnapshot", ticker |-> ticker, bid |-> bid, ask |-> ask]

\* fetch_options_chain, lines 178-207: the store after the items (details
\* missing or without a ticker, and prices that are not positive, are
\* skipped), or the exception apply_quote raised
RECURSIVE load_chain(_, _)
load_chain(states, items) ==
    LET applied(rest, out) ==
            IF out.ret = ValueError THEN ValueError ELSE load_chain(out.states, rest)
        step(item, rest) ==
            IF item.ticker = None \/ item.ticker.value = <<>> THEN load_chain(states, rest)
            ELSE IF item.bid <= 0 \/ item.ask <= 0 THEN load_chain(states, rest)
            ELSE CHOOSE r \in {applied(rest, out) : out \in {apply_quote_call(states,
                                 [occ_symbol |-> item.ticker.value, bid |-> item.bid,
                                  ask |-> item.ask, ts |-> 1])}} : TRUE
    IN  IF items = <<>> THEN [kind |-> "dict", items |-> states]
        ELSE CHOOSE r \in {step(item, rest) :
                 item \in {items[1]}, rest \in {SubSeq(items, 2, Len(items))}} : TRUE

\* fetch_options_chain: the store returned, or the exception raised
fetch_options_chain(env) ==
    IF load_required_secret(env.secret_file, env.environ) = ConfigurationError
    THEN ConfigurationError
    ELSE IF env.chain.kind # "list" THEN env.chain
    ELSE load_chain(EmptyDict, env.chain.items)

\* get_expiries: the expiries of the symbol from today to n_days ahead,
\* ascending
get_expiries(states, symbol, n_days, today) ==
    LET mine == get_by_symbol_result(states, symbol)
        ahead(st) == toordinal(date_of(st.expiration_date)) - toordinal(today)
        near == {mine[i].expiration_date : i \in
                    {j \in 1..Len(mine) : ahead(mine[j]) >= 0 /\ ahead(mine[j]) <= n_days}}
        sorted(T) == [r \in 1..Cardinality(T) |->
                         CHOOSE x \in T :
                             Cardinality({y \in T : toordinal(date_of(y))
                                                        < toordinal(date_of(x))}) = r - 1]
    IN  CHOOSE s \in {sorted(T) : T \in {near}} : TRUE

Exit(status, reached, raised, results) ==
    [kind |-> "exit", status |-> status, reached |-> reached, raised |-> raised,
     results |-> results]

\* main, lines 249-259: one call of run_models_for_expiry
main_run_one(argv, env, store, events, expiry, strike) ==
    CHOOSE r \in {run_models_result(store, events, args, numerics) :
        args \in {EngineArgs(argv.ticker, expiry, strike, Float(2), TRUE)},
        numerics \in {Numerics(toordinal(date_of(expiry)) - toordinal(env.today),
                          env.no_iv, env.converges, env.p_svi, env.p_spline)}} : TRUE

\* main, lines 249-261: the predictions are printed, unless a call raised
main_print(results) ==
    IF \E i \in 1..Len(results) : results[i] = ValueError
    THEN Exit(1, "run_models_for_expiry", ValueError, None)
    ELSE Exit(0, "print_predictions", None, List(results))

\* main, lines 236-261, with the expiries and the strikes to run
main_run(argv, env, store, events, expiries, strikes) ==
    IF expiries = <<>> THEN Exit(0, "No expiries found", None, None)
    ELSE CHOOSE r \in {main_print(results) : results \in
             {[i \in 1..(Len(expiries) * Len(strikes)) |->
                  main_run_one(argv, env, store, events,
                               expiries[((i - 1) \div Len(strikes)) + 1],
                               strikes[((i - 1) % Len(strikes)) + 1])]}} : TRUE

\* main, lines 227-261, with the store fetch_options_chain returned
main_after_fetch(argv, env, store) ==
    IF Len(store) = 0 THEN Exit(0, "No quotes fetched", None, None)
    ELSE IF env.fetched.kind # "list" THEN Exit(1, "refresh", env.fetched, None)
    ELSE CHOOSE r \in {main_run(argv, env, store, events, expiries, strikes) :
             events \in {new_events_of(env.fetched.items)},
             expiries \in {get_expiries(store, argv.ticker, argv.days, env.today)},
             strikes \in {IF argv.strike # None /\ argv.strike.value # 0
                          THEN <<argv.strike.value>>
                          ELSE SortedSet({store[i].value.strike_price : i \in
                                   {j \in 1..Len(store) :
                                        store[j].value.symbol = argv.ticker}})}} : TRUE

\* main and the interpreter around it: a return ends the process with
\* status 0, an exception that leaves main with status 1
main_result(argv, env) ==
    IF ~is_symbol(argv.ticker) THEN Exit(0, "Unknown ticker", None, None)
    ELSE CHOOSE r \in {IF fetch.kind # "dict"
                       THEN Exit(1, "fetch_options_chain", fetch, None)
                       ELSE main_after_fetch(argv, env, fetch.items) :
             fetch \in {fetch_options_chain(env)}} : TRUE

\* one run of the script, from the command line to the end of the process
main(argv, env) ==
    /\ call_out = Pending
    /\ call_in' = [kind |-> "call", argv |-> argv, env |-> env]
    /\ call_out' = Called("main", main_result(argv, env), None)
    /\ UNCHANGED <<bisect, buildVars, storeVars, viewVars, codecVars, eventVars,
                   listenerVars>>

\* ------------------------------------------------------------------ inputs
NVDA == <<"N", "V", "D", "A">>
AAPL == <<"A", "A", "P", "L">>
GOOGL == <<"G", "O", "O", "G", "L">>
ABC == <<"A", "B", "C">>

Occ(prefix, ticker, yymmdd, type, strike, suffix) ==
    prefix \o ticker \o yymmdd \o <<type>> \o strike \o suffix

O_ == <<"O", ":">>
D260117 == <<"2", "6", "0", "1", "1", "7">>
D260220 == <<"2", "6", "0", "2", "2", "0">>
D261317 == <<"2", "6", "1", "3", "1", "7">>
K140 == <<"0", "0", "1", "4", "0", "0", "0", "0">>
K150 == <<"0", "0", "1", "5", "0", "0", "0", "0">>

OCC_CALL == Occ(O_, NVDA, D260117, "C", K140, <<>>)
OCC_CALL_LF == Occ(O_, NVDA, D260117, "C", K140, <<LF>>)
OCC_PUT == Occ(O_, NVDA, D260117, "P", K140, <<>>)
OCC_CALL_150 == Occ(O_, NVDA, D260117, "C", K150, <<>>)
OCC_CALL_FEB == Occ(O_, NVDA, D260220, "C", K140, <<>>)
OCC_CALL_AAPL == Occ(O_, AAPL, D260117, "C", K140, <<>>)
OCC_BAD_DATE == Occ(O_, NVDA, D261317, "C", K140, <<>>)
OCC_NO_PREFIX == Occ(<<>>, NVDA, D260117, "C", K140, <<>>)

EXPIRY_JAN == make_expiry_datetime(<<"2", "6">>, <<"0", "1">>, <<"1", "7">>)
EXPIRY_FEB == make_expiry_datetime(<<"2", "6">>, <<"0", "2">>, <<"2", "0">>)

\* the strings offered to parse_occ_symbol
OccInputs ==
    { Occ(prefix, ticker, yy \o mm \o dd, type, strike, suffix) :
        prefix \in {O_, <<>>},
        ticker \in {NVDA, GOOGL, ABC},
        yy \in {<<"2", "6">>, <<"2", "4">>, <<"2", U0667>>},
        mm \in {<<"0", "1">>, <<"0", "2">>, <<"1", "3">>, <<"0", "0">>},
        dd \in {<<"1", "7">>, <<"2", "9">>, <<"3", "0">>, <<"0", "0">>, <<"1", U0667>>},
        type \in {"C", "P", "X"},
        strike \in {K140, <<"0", "0", "4", "5", "0", "5", "0", "0">>,
                    <<"0", "0", "1", "4", "0", "0", "0">>},
        suffix \in {<<>>, <<LF>>} }

\* a negative, a zero and a positive price, in ticks
Ticks == {-1, 0, MaxTick}

Quotes(ids, ticks, tss) ==
    [occ_symbol : ids, bid : {2 * t : t \in ticks},
     ask : {2 * t : t \in ticks}, ts : tss]

\* quotes of the store specification
GoodIds == {OCC_CALL, OCC_CALL_LF}
BadIds == {OCC_BAD_DATE, OCC_NO_PREFIX}
StoreIds == GoodIds \cup BadIds
StoreQuotes == Quotes(GoodIds, Ticks, 1..MaxTs) \cup Quotes(BadIds, {-1, 0}, {1})

\* quotes of the get_all specification
ViewIds == {OCC_CALL, OCC_PUT, OCC_NO_PREFIX}
ViewQuotes == Quotes(ViewIds, {0, MaxTick}, {1})

\* quotes of the snapshot specification
SnapIds == {OCC_CALL, OCC_CALL_150, OCC_NO_PREFIX}
SnapQuotes == Quotes(SnapIds, {0, MaxTick}, {1})

MaxSpreads == {None, Float(0), Float(2 * MaxTick)}

\* the OptionState of a quote the store accepts
StateOf(occ_symbol, bidTick, askTick) ==
    apply_quote_call(EmptyDict, [occ_symbol |-> occ_symbol, bid |-> 2 * bidTick,
                                 ask |-> 2 * askTick, ts |-> 1]).ret

\* the states offered to build_surface_snapshot
SampleStates ==
    { StateOf(OCC_CALL, 1, 1), StateOf(OCC_CALL_150, 0, 1), StateOf(OCC_PUT, 0, 0),
      StateOf(OCC_CALL_AAPL, 0, 0), StateOf(OCC_CALL_FEB, 0, 0),
      StateOf(OCC_CALL_LF, 0, 1) }

SeqsUpTo(S, n) == UNION {[1..k -> S] : k \in 0..n}

\* ---------------------------------------------------------- specifications
InitCodec == occ_input = <<>> /\ parsed = Pending

\* no modeler function has been called
InitModeler == call_in = None /\ call_out = Pending /\ bisect = None

\* EventStore(): no events, never refreshed; the refresh loop not yet entered
InitEvents ==
    /\ _events = EmptyDict
    /\ _last_refresh = None
    /\ loop_pc = "start"
    /\ attempts = 0
    /\ clock = 0
    /\ fetched = None
    /\ before = None

\* no listener has been constructed
InitListener ==
    /\ event_queue = None
    /\ _msg_count = 0
    /\ _client = None
    /\ run_pc = "none"
    /\ run_outcome = Pending
    /\ batch = None
    /\ offered = <<>>
    /\ took = 0

InitStore ==
    /\ _states = EmptyDict
    /\ op = "init"
    /\ arg = None
    /\ ret = None
    /\ last_accepted = {}
    /\ max_ts = {}

InitView == view = EmptyDict /\ view_obj = "NoObj"

InitBuild ==
    /\ surface = None
    /\ states_in = <<>>
    /\ build_args = BuildArgs(NVDA, EXPIRY_JAN, None)

\* the store after construction
Init == InitCodec /\ InitStore /\ InitView /\ InitListener /\ InitBuild /\ InitModeler /\ InitEvents

\* the writer and the readers of the store
Next ==
    \/ \E quote \in StoreQuotes : apply_quote(quote)
    \/ clear
    \/ \E occ_symbol \in StoreIds : get(occ_symbol)
    \/ count

Spec == Init /\ [][Next]_vars

\* get_all and a caller that edits the mapping it returns
NextView ==
    \/ \E quote \in ViewQuotes : apply_quote(quote)
    \/ clear
    \/ get(OCC_CALL)
    \/ get_by_symbol(NVDA)
    \/ get_by_strike(NVDA, IntOf(K140))
    \/ get_strikes(NVDA)
    \/ count
    \/ get_all
    \/ view_clear
    \/ \E key \in ViewIds : view_delitem(key)
    \/ view_setitem(OCC_CALL_150, StateOf(OCC_CALL_150, 0, 0))

SpecView == Init /\ [][NextView]_vars

\* the store, and snapshots built from it
NextSnap ==
    \/ \E quote \in SnapQuotes : apply_quote(quote)
    \/ clear
    \/ \E symbol \in {NVDA, AAPL}, max_spread \in {None, Float(0)} :
           snapshot_from_store(symbol, EXPIRY_JAN, max_spread)

SpecSnap == Init /\ [][NextSnap]_vars

\* build_surface_snapshot on any input
InitInput ==
    /\ InitCodec /\ InitStore /\ InitView /\ InitListener /\ InitModeler /\ InitEvents
    /\ surface = None
    /\ states_in \in SeqsUpTo(SampleStates, MaxLen)
    /\ build_args \in {BuildArgs(symbol, expiration_date, max_spread) :
                         symbol \in {NVDA, AAPL},
                         expiration_date \in {EXPIRY_JAN, EXPIRY_FEB},
                         max_spread \in MaxSpreads}

NextInput == snapshot_from_input

SpecInput == InitInput /\ [][NextInput]_vars

\* parse_occ_symbol on any string
InitParse ==
    /\ occ_input \in OccInputs
    /\ parsed = Pending
    /\ InitStore /\ InitView /\ InitListener /\ InitBuild /\ InitModeler /\ InitEvents

NextParse == parse_input

SpecParse == InitParse /\ [][NextParse]_vars

\* ================================================================== claims
StoredStates == {_states[i].value : i \in 1..Len(_states)}

AcceptedIds == {q.occ_symbol : q \in last_accepted}

\* the identifier of the quote cannot be turned into the 4-tuple
DoesNotParse(quote) == parse_occ_symbol(quote.occ_symbol).kind # "tuple"

\* C1: a call of apply_quote with bid < 0, ask < 0, bid > ask or an
\* identifier that does not parse returns None and leaves the mapping of
\* the store as it was.
C1_RejectedQuoteIsAbsent ==
    [][(op' = "apply_quote" /\ (IsGarbage(arg'.quote) \/ DoesNotParse(arg'.quote)))
         => (ret' = None /\ _states' = _states)]_vars

\* C2: the store holds, for every identifier, exactly the state built from
\* the last quote accepted for it since the last clear, whatever the
\* timestamps; it holds nothing else, and count() is the number of
\* distinct identifiers accepted since the last clear.
C2_StoreFollowsArrivalOrder ==
    /\ DictKeys(_states) = AcceptedIds
    /\ Len(_states) = Cardinality(AcceptedIds)
    /\ \A q \in last_accepted :
           LET st == DictGet(_states, q.occ_symbol)
               p == parse_occ_symbol(q.occ_symbol)
           IN  /\ st.kind = "OptionState"
               /\ st.occ_symbol = q.occ_symbol
               /\ st.bid = q.bid /\ st.ask = q.ask /\ st.last_updated = q.ts
               /\ 2 * st.mid = q.bid + q.ask /\ st.spread = q.ask - q.bid
               /\ st.symbol = p.symbol /\ st.strike_price = p.strike
               /\ st.expiration_date = p.expiration_date
               /\ st.option_type = p.option_type
    /\ (op = "count" => ret = IntValue(Cardinality(AcceptedIds)))

\* two identifiers are stored and one of them holds a quote that arrived
\* after a quote with a later timestamp
C2_Witness ==
    /\ Len(_states) = 2
    /\ \E q \in last_accepted, m \in max_ts :
           /\ m.occ_symbol = q.occ_symbol /\ q.ts < m.ts
           /\ DictGet(_states, q.occ_symbol).last_updated = q.ts

\* C3: every stored OptionState has 2*mid = bid + ask, spread = ask - bid,
\* bid >= 0, ask >= 0 and bid <= ask, hence spread >= 0 and mid >= 0.
C3_StoredStateConsistent ==
    \A st \in StoredStates :
        /\ 2 * st.mid = st.bid + st.ask
        /\ st.spread = st.ask - st.bid
        /\ st.bid >= 0 /\ st.ask >= 0 /\ st.bid <= st.ask
        /\ st.spread >= 0 /\ st.mid >= 0

\* a locked quote (bid = ask > 0) and a quote with a positive spread are stored
C3_Witness ==
    /\ \E st \in StoredStates : st.bid = st.ask /\ st.bid > 0
    /\ \E st \in StoredStates : st.spread > 0

\* C4: applying the same quote event twice in a row leaves the mapping and
\* count() that the first application left, and the second call returns
\* what the first returned.
C4_ApplyQuoteIdempotent ==
    [][(op = "apply_quote" /\ op' = "apply_quote" /\ arg' = arg)
         => (_states' = _states /\ Len(_states') = Len(_states) /\ ret' = ret)]_vars

\* an accepted quote has replaced the state of a stored identifier, another
\* identifier is stored too; the same quote applied again ends in this state
C4_Witness ==
    /\ op = "apply_quote" /\ ret.kind = "OptionState"
    /\ Len(_states) = 2
    /\ _states[1].value = ret

Count(xs, x) == Cardinality({i \in 1..Len(xs) : xs[i] = x})

IsSurface(sf) == sf.kind = "OptionSurfaceSnapshot"

\* the quote's state matches the arguments of the build
QuoteMatches(q, args) ==
    LET p == parse_occ_symbol(q.occ_symbol)
    IN  /\ p.symbol = args.symbol
        /\ p.expiration_date = args.expiration_date
        /\ (args.max_spread = None \/ q.ask - q.bid <= args.max_spread.value)

PointOfQuote(q) ==
    LET p == parse_occ_symbol(q.occ_symbol)
    IN  [kind |-> "OptionPoint", strike |-> p.strike, option_type |-> p.option_type,
         bid |-> q.bid, ask |-> q.ask, mid |-> (q.bid + q.ask) \div 2,
         spread |-> q.ask - q.bid]

\* sf holds one point for each matching quote of the set accepted, calls
\* among the calls and puts among the puts, and no other point
HoldsExactly(sf, accepted, args) ==
    LET matching == {q \in accepted : QuoteMatches(q, args)}
        side(t) == {q \in matching : PointOfQuote(q).option_type = t}
        copies(qs, pt) == Cardinality({q \in qs : PointOfQuote(q) = pt})
    IN  /\ sf.symbol = args.symbol /\ sf.expiration_date = args.expiration_date
        /\ Len(sf.calls) = Cardinality(side("call"))
        /\ Len(sf.puts) = Cardinality(side("put"))
        /\ \A q \in side("call") :
               Count(sf.calls, PointOfQuote(q)) = copies(side("call"), PointOfQuote(q))
        /\ \A q \in side("put") :
               Count(sf.puts, PointOfQuote(q)) = copies(side("put"), PointOfQuote(q))

\* C5: a Surface built from the store holds exactly the matching states
\* accepted up to the build, and apply_quote or clear calls made afterwards
\* never change the calls and puts of a Surface already built.
C5_SurfaceIsSnapshot ==
    [][/\ op' = "build_surface_snapshot"
            => (IsSurface(surface') /\ HoldsExactly(surface', last_accepted', build_args'))
       /\ (op' \in {"apply_quote", "clear"} /\ IsSurface(surface))
            => (surface'.calls = surface.calls /\ surface'.puts = surface.puts)]_vars

\* a Surface with two calls was built and the store was cleared afterwards
C5_Witness ==
    /\ IsSurface(surface) /\ Len(surface.calls) = 2
    /\ build_args.max_spread # None
    /\ op = "clear" /\ Len(_states) = 0

StrictlyIncreasing(points) ==
    \A i \in 1..Len(points) - 1 : points[i].strike < points[i + 1].strike

NonDecreasing(points) ==
    \A i \in 1..Len(points) - 1 : points[i].strike <= points[i + 1].strike

KeptInput ==
    {i \in 1..Len(states_in) :
        /\ states_in[i].symbol = build_args.symbol
        /\ states_in[i].expiration_date = build_args.expiration_date
        /\ (build_args.max_spread = None
              \/ states_in[i].spread <= build_args.max_spread.value)}

\* no two kept states of the input share strike and side
DistinctStrikes ==
    \A i, j \in KeptInput :
        (/\ states_in[i].strike_price = states_in[j].strike_price
         /\ states_in[i].option_type = states_in[j].option_type) => i = j

C7_KeepsExactlyMatching ==
    IsSurface(surface) =>
        LET kept(t) == {i \in KeptInput : (states_in[i].option_type = "call") = t}
            copies(is, pt) == Cardinality({i \in is : OptionPoint(states_in[i]) = pt})
        IN  /\ Len(surface.calls) = Cardinality(kept(TRUE))
            /\ Len(surface.puts) = Cardinality(kept(FALSE))
            /\ \A i \in kept(TRUE) :
                   Count(surface.calls, OptionPoint(states_in[i]))
                       = copies(kept(TRUE), OptionPoint(states_in[i]))
            /\ \A i \in kept(FALSE) :
                   Count(surface.puts, OptionPoint(states_in[i]))
                       = copies(kept(FALSE), OptionPoint(states_in[i]))

\* a call with spread = max_spread and a put are kept, a third state is dropped
C7_Witness ==
    /\ IsSurface(surface) /\ Len(states_in) = 3
    /\ Len(surface.calls) = 1 /\ Len(surface.puts) = 1
    /\ build_args.max_spread # None
    /\ surface.calls[1].spread = build_args.max_spread.value
    /\ surface.calls[1].spread > 0

ReadOps == {"get", "get_all", "get_by_symbol", "get_by_strike", "get_strikes", "count"}

ViewOps == {"view.clear", "view.delitem", "view.setitem"}

\* C8: get, get_all, get_by_symbol, get_by_strike, get_strikes and count
\* leave the stored mapping unchanged, and adding or removing entries in the
\* mapping returned by get_all changes neither the stored mapping nor count().
C8_ReadsLeaveStore ==
    [][op' \in ReadOps \cup ViewOps
         => (_states' = _states /\ Len(_states') = Len(_states))]_vars

\* the store holds two states and the caller emptied the mapping it got
C8_Witness ==
    /\ op = "view.clear" /\ view_obj = "NewDict"
    /\ view = EmptyDict /\ Len(_states) = 2

\* the identifier format O:<TICKER><YY><MM><DD><C|P><STRIKE8> applied to a
\* parsed record
FormatOcc(p) ==
    O_ \o p.symbol
       \o ZeroPad(p.expiration_date.year % 100, 2)
       \o ZeroPad(p.expiration_date.month, 2)
       \o ZeroPad(p.expiration_date.day, 2)
       \o <<IF p.option_type = "call" THEN "C" ELSE "P">>
       \o ZeroPad(p.strike, 8)

\* the MM and DD digits of a string that matches the pattern are not a
\* calendar date of the year 20YY
NotCalendarDate(s) ==
    LET match == _OCC_PATTERN(s)
    IN  /\ match # None
        /\ \/ IntOf(match.mm) \notin 1..12
           \/ IntOf(match.dd) \notin
                  1..DaysInMonth(2000 + IntOf(match.yy), IntOf(match.mm))

\* C9: parse_occ_symbol completes without raising for every string; a string
\* without the prefix, with an unrecognized ticker or with MM/DD digits that
\* are not a calendar date yields None, and a record has its expiry at
\* 21:00:00 UTC, strike = digits / 1000 and side call for C, put for P.
C9_ParseNeverRaises ==
    parsed # Pending =>
        /\ parsed # ValueError
        /\ NotCalendarDate(occ_input) => parsed = None
        /\ (Len(occ_input) < 2 \/ SubSeq(occ_input, 1, 2) # O_) => parsed = None
        /\ (_OCC_PATTERN(occ_input) # None
              /\ _OCC_PATTERN(occ_input).symbol \notin SYMBOLS) => parsed = None
        /\ parsed.kind = "tuple" =>
               /\ parsed.expiration_date.hour = 21
               /\ parsed.expiration_date.minute = 0
               /\ parsed.expiration_date.second = 0
               /\ parsed.expiration_date.tzinfo = "UTC"
               /\ parsed.strike = IntOf(_OCC_PATTERN(occ_input).strike)
               /\ parsed.option_type =
                      (IF _OCC_PATTERN(occ_input).type = "C" THEN "call" ELSE "put")

\* C10: for every identifier that parse_occ_symbol parses, formatting the
\* parsed record behind the prefix O: gives back the identical string.
C10_RoundTrip ==
    parsed.kind = "tuple" => FormatOcc(parsed) = occ_input

\* ------------------------------------------- ratio and slope models: inputs
\* an OptionPoint quoted at whole ticks
PointAt(strike, option_type, bidTick, askTick) ==
    OptionPoint([strike_price |-> strike, option_type |-> option_type,
                 bid |-> 2 * bidTick, ask |-> 2 * askTick,
                 mid |-> bidTick + askTick, spread |-> 2 * (askTick - bidTick)])

\* the strikes of the chains (thousandths), ascending
ChainStrikes == <<1000, 2000, 3000>>

Absent == <<>>

\* the chain holding, at each strike, the quote chosen for it (or no point)
Chain(option_type, choice) ==
    LET at(j) == IF choice[j] = Absent THEN <<>>
                 ELSE <<PointAt(ChainStrikes[j], option_type, choice[j][1], choice[j][2])>>
    IN  at(1) \o at(2) \o at(3)

Chains(option_type, quotes) ==
    {Chain(option_type, choice) : choice \in [1..3 -> quotes \cup {Absent}]}

SurfaceOf(calls, puts) ==
    [kind |-> "OptionSurfaceSnapshot", symbol |-> NVDA,
     expiration_date |-> EXPIRY_JAN, calls |-> calls, puts |-> puts]

\* call chains with mids 0, 1, 3 and 0.5 dollars; put chains below 3 dollars
CallChains == Chains("call", {<<0, 0>>, <<1, 1>>, <<3, 3>>, <<0, 1>>})
PutChains == {puts \in Chains("put", {<<1, 1>>, <<0, 1>>}) :
                 \A j \in 1..Len(puts) : puts[j].strike < 3000}

ModelSurfaces == {SurfaceOf(calls, puts) : calls \in CallChains, puts \in PutChains}

QueryStrikes == {1000, 1500, 2000, 3000}
Windows == {0, 1, 2}
Discounts == {One, Rat(1, 2)}

\* ---------------------------------------------------- specification: models
InitModels ==
    /\ InitCodec /\ InitStore /\ InitView /\ InitListener /\ InitEvents
    /\ surface \in ModelSurfaces
    /\ states_in = <<>>
    /\ build_args = BuildArgs(NVDA, EXPIRY_JAN, None)
    /\ call_in \in {ModelArgs(strike, window, discount, max_spread) :
                      strike \in QueryStrikes, window \in Windows,
                      discount \in Discounts, max_spread \in MaxSpreads}
    /\ call_out = Pending
    /\ bisect = None

NextModels == simple_from_input \/ slope_from_input

SpecModels == InitModels /\ [][NextModels]_vars

\* ------------------------------------------------------------ claims, models
InUnit(x) == RLe(Zero, x) /\ RLe(x, One)

Returned(fn) == call_out # Pending /\ call_out.fn = fn /\ call_out.result # None

\* the first index of a call at the least distance from the strike asked for
NearestCall ==
    LET calls == surface.calls
        far(j) == Abs(calls[j].strike - call_in.strike)
        least == {i \in 1..Len(calls) : \A j \in 1..Len(calls) : far(i) <= far(j)}
    IN  CHOOSE i \in least : \A j \in least : i <= j

\* -(mid[right] - mid[left]) / (strike[right] - strike[left]) / D
SlopeValue(left, right) ==
    LET calls == surface.calls
    IN  RDiv(Rat(-(calls[right].mid - calls[left].mid) * 1000,
                 2 * (calls[right].strike - calls[left].strike)),
             call_in.discount)

Clamped(x) == IF RLt(x, Zero) THEN Zero ELSE IF RLt(One, x) THEN One ELSE x

\* C12: whenever estimate_probability_simple or estimate_probability_slope
\* returns a value, its prob_above and its prob_below = 1 - prob_above lie
\* in [0, 1]
C12_ProbabilityInUnit ==
    \A fn \in {"estimate_probability_simple", "estimate_probability_slope"} :
        Returned(fn) =>
            /\ InUnit(call_out.result.prob_above)
            /\ InUnit(prob_below(call_out.result))
            /\ prob_below(call_out.result) = RSub(One, call_out.result.prob_above)

\* the slope model returned a value whose finite difference lies outside [0, 1]
C12_Witness ==
    /\ Returned("estimate_probability_slope")
    /\ call_in.window = 1
    /\ Len(surface.calls) = 3
    /\ RLt(One, SlopeValue(1, 3))
    /\ call_out.result.prob_above = One

\* C13: the slope model returns absent when the nearest call index i has
\* i - window or i + window outside the chain, when max_spread is set and a
\* call in [i - window, i + window] has a larger spread, or when the two
\* outer strikes are equal; otherwise it returns
\* clamp(-(mid[i+window] - mid[i-window]) / (strike[i+window] - strike[i-window]) / D, 0, 1)
C13_SlopeModel ==
    (call_out # Pending /\ call_out.fn = "estimate_probability_slope") =>
        LET calls == surface.calls
            left == NearestCall - call_in.window
            right == NearestCall + call_in.window
            edge == calls = <<>> \/ left < 1 \/ right > Len(calls)
            wide == /\ call_in.max_spread # None
                    /\ \E j \in left..right : calls[j].spread > call_in.max_spread.value
            equal == calls[left].strike = calls[right].strike
        IN  IF edge \/ wide \/ equal
            THEN call_out.result = None /\ call_out.wrapped = NaN
            ELSE /\ call_out.result # None
                 /\ call_out.result.strike_price = call_in.strike
                 /\ call_out.result.prob_above = Clamped(SlopeValue(left, right))
                 /\ call_out.wrapped = call_out.result.prob_above

\* a value strictly inside (0, 1) returned under a discount of 1/2 and a
\* max_spread
C13_Witness ==
    /\ Returned("estimate_probability_slope")
    /\ call_in.discount = Rat(1, 2)
    /\ call_in.max_spread # None
    /\ RLt(Zero, call_out.result.prob_above)
    /\ RLt(call_out.result.prob_above, One)

\* C14: the ratio model returns a value exactly when the surface has a call
\* and a put at strike exactly K, both mids are > 0 and, with max_spread set,
\* neither spread exceeds it; the value is c.mid / (c.mid + p.mid); otherwise
\* it returns absent and SimpleModel.prob_above returns NaN
C14_RatioModel ==
    (call_out # Pending /\ call_out.fn = "estimate_probability_simple") =>
        LET K == call_in.strike
            cs == {j \in 1..Len(surface.calls) : surface.calls[j].strike = K}
            ps == {j \in 1..Len(surface.puts) : surface.puts[j].strike = K}
            c == surface.calls[CHOOSE j \in cs : \A k \in cs : j <= k]
            p == surface.puts[CHOOSE j \in ps : \A k \in ps : j <= k]
            usable == /\ cs # {} /\ ps # {}
                      /\ c.mid > 0 /\ p.mid > 0
                      /\ call_in.max_spread # None =>
                            /\ c.spread <= call_in.max_spread.value
                            /\ p.spread <= call_in.max_spread.value
        IN  IF usable
            THEN /\ call_out.result # None
                 /\ call_out.result.prob_above = Rat(c.mid, c.mid + p.mid)
                 /\ call_out.wrapped = call_out.result.prob_above
            ELSE call_out.result = None /\ call_out.wrapped = NaN

\* a ratio returned with max_spread set, and one refused for a wide spread
C14_Witness ==
    /\ Returned("estimate_probability_simple")
    /\ call_in.max_spread # None
    /\ call_out.result.prob_above = Rat(3, 4)

\* ------------------------------------------------ forward estimator: inputs
ForwardStrikes == <<1000, 2000, 3000, 4000>>

\* the points of the quotes chosen at the strikes, in order; Absent for none
ChainAt(strikes, option_type, choice) ==
    LET at(j) == PointAt(strikes[j], option_type, choice[j][1], choice[j][2])
        here == SelectSeq([j \in 1..Len(strikes) |-> j], LAMBDA j : choice[j] # Absent)
    IN  [i \in 1..Len(here) |-> at(here[i])]

\* calls worth 3, 2, 1 dollars at falling prices; a wide one at the last strike
ForwardCalls ==
    {ChainAt(ForwardStrikes, "call", <<c1, c2, c3, c4>>) :
        c1 \in {Absent, <<3, 3>>}, c2 \in {Absent, <<2, 2>>, <<1, 1>>},
        c3 \in {Absent, <<1, 1>>, <<2, 2>>}, c4 \in {<<2, 2>>, <<1, 3>>}}

\* puts worth 1 dollar, tight or wide, worth nothing, or crossed
ForwardPuts ==
    {ChainAt(ForwardStrikes, "put", <<p1, p2, p3, p4>>) :
        p1 \in {<<1, 1>>, <<0, 2>>}, p2 \in {Absent, <<1, 1>>, <<0, 0>>},
        p3 \in {<<1, 1>>, <<0, 2>>, <<2, 0>>}, p4 \in {Absent, <<1, 1>>, <<3, 3>>}}

ForwardSurfaces == {SurfaceOf(calls, puts) : calls \in ForwardCalls, puts \in ForwardPuts}

\* strikes a cent off 2 and 3 dollars: forwards of 3, 3.01, 2.99 and 5 or 3
\* dollars, so that the trim keeps forwards that differ, at weights that
\* differ
NearStrikes == <<1000, 2010, 2990, 4000>>

NearSurfaces ==
    {SurfaceOf(ChainAt(NearStrikes, "call", <<<<3, 3>>, c2, <<1, 1>>, <<2, 2>>>>),
               ChainAt(NearStrikes, "put", <<p1, <<1, 1>>, <<1, 1>>, p4>>)) :
        c2 \in {<<2, 2>>, <<1, 3>>}, p1 \in {<<1, 1>>, <<0, 2>>},
        p4 \in {<<1, 1>>, <<3, 3>>}}

\* ------------------------------------------- specification: forward estimator
InitForward ==
    /\ InitCodec /\ InitStore /\ InitView /\ InitListener /\ InitEvents
    /\ surface \in ForwardSurfaces \cup NearSurfaces
    /\ states_in = <<>>
    /\ build_args = BuildArgs(NVDA, EXPIRY_JAN, None)
    /\ call_in \in {ForwardArgs(discount, max_spread, TRIM_PCT, MIN_MID) :
                      discount \in Discounts, max_spread \in MaxSpreads}
    /\ call_out = Pending
    /\ bisect = None

NextForward == forward_from_input

SpecForward == InitForward /\ [][NextForward]_vars

\* ---------------------------------------------- claims, forward estimator
\* the common strikes whose call and put pass the candidate checks
PassingStrikes ==
    LET D == call_in.discount
        ok(pt) == /\ pt.mid * 1000000 > 2 /\ pt.bid >= 0 /\ pt.ask >= 0 /\ pt.bid <= pt.ask
                  /\ call_in.max_spread # None => pt.spread <= call_in.max_spread.value
    IN  {k \in {surface.calls[i].strike : i \in 1..Len(surface.calls)} :
            \E j \in 1..Len(surface.puts) :
                LET c == CHOOSE pt \in {surface.calls[i] : i \in 1..Len(surface.calls)} :
                             pt.strike = k
                    p == surface.puts[j]
                IN  /\ p.strike = k /\ ok(c) /\ ok(p)
                    \* K + (c.mid - p.mid) / D > 0
                    /\ k * D.num * 2 + (c.mid - p.mid) * D.den * 1000 > 0}

ForwardReturned ==
    /\ call_out # Pending
    /\ call_out.fn = "estimate_forward_put_call_parity"
    /\ call_out.result # None

\* C15: the forward estimator returns absent when fewer than 3 common strikes
\* pass the candidate checks, and every ForwardEstimate it returns has
\* n_used >= 3 and forward > 0
C15_ForwardEstimate ==
    (call_out # Pending /\ call_out.fn = "estimate_forward_put_call_parity") =>
        /\ Cardinality(PassingStrikes) < 3 => call_out.result = None
        /\ call_out.result # None =>
              /\ call_out.result.kind = "ForwardEstimate"
              /\ call_out.result.n_used >= 3
              /\ QCompare(call_out.result.forward, Zero) > 0

\* four candidates of which the trim keeps three
C15_Witness ==
    /\ ForwardReturned
    /\ Cardinality(PassingStrikes) = 4
    /\ call_out.result.n_used = 3

\* fewer than 3 candidates, one of them refused for its crossed quote
C15_WitnessAbsent ==
    /\ call_out # Pending
    /\ call_out.fn = "estimate_forward_put_call_parity"
    /\ Cardinality(PassingStrikes) = 2
    /\ Len(common_strikes(surface)) >= 3
    /\ call_out.result = None

\* ------------------------------------------------ confidence score: inputs
\* calls tight at 1 and 3 dollars, one dollar wide at 3.5, and crossed
ConfidenceCalls == Chains("call", {<<1, 1>>, <<3, 3>>, <<3, 4>>, <<1, 0>>})
\* puts tight, wide and crossed, below the last strike
ConfidencePuts == {puts \in Chains("put", {<<1, 1>>, <<3, 4>>, <<1, 0>>}) :
                      \A j \in 1..Len(puts) : puts[j].strike < 3000}

ConfidenceSurfaces ==
    {SurfaceOf(calls, puts) : calls \in ConfidenceCalls, puts \in ConfidencePuts}

\* max_relative_spread = 0.5, the default
MAX_RELATIVE_SPREAD == Rat(1, 2)

\* ------------------------------------------ specification: confidence score
InitConfidence ==
    /\ InitCodec /\ InitStore /\ InitView /\ InitListener /\ InitEvents
    /\ surface \in ConfidenceSurfaces
    /\ states_in = <<>>
    /\ build_args = BuildArgs(NVDA, EXPIRY_JAN, None)
    /\ \E strike \in {1500, 2000} :
       \E prob_simple \in {None, StrikeProbability(strike, Zero),
                           StrikeProbability(strike, Rat(1, 2))} :
       \E prob_slope \in {None, StrikeProbability(strike, Rat(1, 2)),
                          StrikeProbability(strike, One)} :
           call_in = ConfidenceArgs(strike, prob_simple, prob_slope, MAX_RELATIVE_SPREAD)
    /\ call_out = Pending
    /\ bisect = None

NextConfidence == confidence_from_input

SpecConfidence == InitConfidence /\ [][NextConfidence]_vars

\* ------------------------------------------------ claims, confidence score
\* the value is known to lie in [0, 1]
EInUnit(x) == RLe(Zero, x.lo) /\ RLe(x.hi, One)

ConfidenceReturned == call_out # Pending /\ call_out.fn = "compute_confidence"

\* C17: compute_confidence returns a confidence in [0, 1] and each of the
\* four sub-scores (agreement, liquidity, monotonicity, spacing) in [0, 1]
C17_ConfidenceInUnit ==
    ConfidenceReturned =>
        /\ EInUnit(call_out.result.confidence)
        /\ EInUnit(call_out.result.diagnostics.agreement)
        /\ EInUnit(call_out.result.diagnostics.liquidity)
        /\ EInUnit(call_out.result.diagnostics.monotonicity)
        /\ EInUnit(call_out.result.diagnostics.spacing)

\* no point of the surface has ask below bid
NoCrossedPoint ==
    /\ \A j \in 1..Len(surface.calls) : surface.calls[j].spread >= 0
    /\ \A j \in 1..Len(surface.puts) : surface.puts[j].spread >= 0

\* on a surface without crossed points every score lies in [0, 1]
C17_InUnitUnlessCrossed == NoCrossedPoint => C17_ConfidenceInUnit

\* all four sub-scores strictly inside (0, 1] on an uncrossed surface
C17_Reached ==
    /\ ConfidenceReturned /\ NoCrossedPoint
    /\ RLt(Zero, call_out.result.diagnostics.agreement.lo)
    /\ RLt(Zero, call_out.result.diagnostics.liquidity.lo)
    /\ RLt(call_out.result.diagnostics.liquidity.hi, One)
    /\ call_out.result.diagnostics.monotonicity = Exactly(One)
    /\ RLt(Zero, call_out.result.diagnostics.spacing.lo)

\* ------------------------------------------------ implied volatility: inputs
\* an at-the-money pair and a pair ten dollars apart
ForwardStrikePairs == {<<Rat(100, 1), Rat(100, 1)>>, <<Rat(100, 1), Rat(90, 1)>>}

\* prices at, just above and just below the bounds, and well inside them
PricesAround(bounds) ==
    {MAdd(bounds.lb, Money(Zero, pico)) : pico \in {-200, -50, 0, 1, 2}}
    \cup {MAdd(bounds.lb, Money(Rat(5, 1), 0))}
    \cup {MAdd(bounds.ub, Money(Zero, pico)) : pico \in {50, 200}}

IvInputs ==
    UNION {{IvArgs(option_type, price, FK[1], FK[2], T, One, MaxIter) :
               price \in PricesAround(_no_arb_bounds_forward(option_type, FK[1], FK[2], One))} :
           option_type \in {"call", "put"}, FK \in ForwardStrikePairs, T \in {Zero, One}}

\* the values bs_price_forward may take: the bounds, and the price asked for
\* moved by half and by twice the tolerance
PriceGrid ==
    LET bounds == _no_arb_bounds_forward(call_in.option_type, call_in.F, call_in.K,
                                         call_in.discount)
        near == {MAdd(call_in.price, Money(Zero, pico)) :
                    pico \in {-20000, -5000, 5000, 20000}}
    IN  {p \in near \cup {bounds.lb, bounds.ub} : MLe(bounds.lb, p) /\ MLe(p, bounds.ub)}

\* ----------------------------------------- specification: implied volatility
InitBisect ==
    /\ InitCodec /\ InitStore /\ InitView /\ InitListener /\ InitBuild /\ InitEvents
    /\ call_in \in IvInputs
    /\ call_out = Pending
    /\ bisect = None

NextBisect ==
    \/ \E p_low \in PriceGrid, p_high \in PriceGrid, p_higher \in PriceGrid :
           iv_enter(p_low, p_high, p_higher)
    \/ \E p_mid \in PriceGrid : iv_iterate(p_mid)

SpecBisect == InitBisect /\ [][NextBisect]_vars

\* ---------------------------------------------- claims, implied volatility
IvReturned ==
    /\ call_out # Pending /\ call_out.fn = "implied_vol_bisect"
    /\ call_out.result # None

\* lb <= price <= ub
InNoArbBounds ==
    LET bounds == _no_arb_bounds_forward(call_in.option_type, call_in.F, call_in.K,
                                         call_in.discount)
    IN  MLe(bounds.lb, call_in.price) /\ MLe(call_in.price, bounds.ub)

\* |bs_price(sigma) - price| <= 1e-8 for the sigma returned
ResidualWithinTol == MLe(MAbs(MSub(call_out.wrapped, call_in.price)), TOL)

\* C18: for every input inside the no-arbitrage bounds for which
\* implied_vol_bisect returns a result, |bs_price(sigma) - price| <= 1e-8 or
\* iterations = max_iter, the near-intrinsic shortcut (sigma = vol_low,
\* iterations = 0) included
C18_BisectResidual ==
    (IvReturned /\ InNoArbBounds) =>
        ResidualWithinTol \/ call_out.result.iterations = call_in.max_iter

\* every result of the while loop is within the tolerance or used all passes
C18_LoopResidual ==
    (IvReturned /\ InNoArbBounds /\ call_out.result.iterations > 0) =>
        ResidualWithinTol \/ call_out.result.iterations = call_in.max_iter

\* a result within the tolerance found before the passes ran out
C18_LoopReached ==
    /\ IvReturned /\ InNoArbBounds /\ ResidualWithinTol
    /\ call_out.result.iterations = 2
    /\ call_out.result.iterations < call_in.max_iter

\* ---------------------------------------------- SVI and spline models: inputs
SmileStrikes == <<1000, 2000, 3000, 4000, 5000, 6000, 7000, 8000, 9000>>

\* the ticks of a quote worth v dollars: the intrinsic value under a forward
\* of 5 dollars plus 1 dollar of time value
Worth(v) == <<v, v>>
CallWorth(j) == IF j < 5 THEN Worth(6 - j) ELSE Worth(1)
PutWorth(j) == IF j > 5 THEN Worth(j - 4) ELSE Worth(1)

\* the last three strikes each hold a call that is good, one dollar wide,
\* worthless, or no call; with itm_zero the in-the-money side is worthless
\* everywhere
SmileCalls(last, itm_zero) ==
    ChainAt(SmileStrikes, "call",
        [j \in 1..9 |-> IF j >= 7 THEN last[j - 6]
                        ELSE IF itm_zero /\ j < 5 THEN Worth(0) ELSE CallWorth(j)])

SmilePuts(itm_zero) ==
    ChainAt(SmileStrikes, "put",
        [j \in 1..9 |-> IF itm_zero /\ j > 5 THEN Worth(0) ELSE PutWorth(j)])

SmileSurfaces ==
    {SurfaceOf(SmileCalls(last, itm_zero), SmilePuts(itm_zero)) :
        last \in [1..3 -> {Absent, Worth(1), <<0, 2>>, Worth(0)}],
        itm_zero \in BOOLEAN}

\* ------------------------------------------- specification: smile models
InitSmile ==
    /\ InitCodec /\ InitStore /\ InitView /\ InitListener /\ InitEvents
    /\ surface \in SmileSurfaces
    /\ states_in = <<>>
    /\ build_args = BuildArgs(NVDA, EXPIRY_JAN, None)
    /\ call_in \in {SmileArgs(One, One, max_spread, TRIM_PCT, no_iv, converges) :
                      max_spread \in {None, Float(0)},
                      no_iv \in SUBSET {2000, 9000},
                      converges \in BOOLEAN}
    /\ call_out = Pending
    /\ bisect = None

NextSmile == svi_from_input \/ spline_from_input

SpecSmile == InitSmile /\ [][NextSmile]_vars

\* ------------------------------------------------- claims, smile models
SmileReturned ==
    call_out # Pending /\ call_out.fn \in {"build_svi_model", "build_spline_model"}

\* the forward estimate the builders start from
SmileForward ==
    estimate_forward_put_call_parity(surface, call_in.discount, call_in.max_spread,
                                     call_in.trim_pct, MIN_MID)

\* the common strikes whose out-of-the-money quote survives the extraction:
\* spreads within max_spread, price > min_mid, spread >= 0, and an implied
\* volatility found
SurvivingStrikes ==
    LET F == SmileForward.forward
        D == call_in.discount
    IN  {K \in {surface.calls[i].strike : i \in 1..Len(surface.calls)} :
            \E j \in 1..Len(surface.puts) :
                LET c == CHOOSE pt \in {surface.calls[i] : i \in 1..Len(surface.calls)} :
                             pt.strike = K
                    p == surface.puts[j]
                    otm == IF QCompare(F, Rat(K, 1000)) > 0 THEN p ELSE c
                    ub == IF otm = p THEN RMul(D, Rat(K, 1000)) ELSE Zero
                IN  /\ p.strike = K
                    /\ call_in.max_spread # None =>
                          /\ c.spread <= call_in.max_spread.value
                          /\ p.spread <= call_in.max_spread.value
                    /\ otm.mid > 0 /\ otm.spread >= 0
                    /\ K \notin call_in.no_iv
                    /\ IF otm = p THEN RLe(Rat(otm.mid, 2), ub)
                       ELSE QCompare(F, RDiv(Rat(otm.mid, 2), D)) >= 0}

\* C16: build_svi_model and build_spline_model return absent whenever the
\* forward estimator returns absent or fewer than 8 out-of-the-money implied
\* volatility points survive extraction; a model is only built from at least
\* 8 points (fit.n_points >= 8)
C16_SmileNeedsEightPoints ==
    SmileReturned =>
        /\ SmileForward = None => call_out.result = None
        /\ (SmileForward # None /\ Cardinality(SurvivingStrikes) < 8) =>
               call_out.result = None
        /\ call_out.result # None =>
               /\ call_out.result.fit.n_points >= 8
               /\ call_out.result.fit.n_points = Cardinality(SurvivingStrikes)
               /\ call_out.result.fit.forward = SmileForward.forward

\* a model built from exactly 8 points out of 9 common strikes
C16_Witness ==
    /\ SmileReturned
    /\ call_out.result # None
    /\ Len(common_strikes(surface)) = 9
    /\ call_out.result.fit.n_points = 8

\* absent for 7 surviving points although the forward is known, and absent
\* for a missing forward although 8 points would survive
C16_WitnessAbsent ==
    /\ SmileReturned
    /\ SmileForward # None
    /\ Cardinality(SurvivingStrikes) = 7
    /\ Len(common_strikes(surface)) >= 8
    /\ call_out.result = None

\* ------------------------------------------------------ event store: inputs
ISO_JAN == replace_utc_offset(isoformat(EXPIRY_JAN))
ISO_FEB == replace_utc_offset(isoformat(EXPIRY_FEB))

\* a market at 5 dollars quoted 0.6 / 0.4, and one at 6 dollars without prices
MARKET_5 == MarketMetadata(Float(5000), Float(Rat(3, 5)), Float(Rat(2, 5)))
MARKET_6 == MarketMetadata(Float(6000), None, None)

EV_NVDA_JAN == EventMetadata(Str(NVDA), Str(ISO_JAN), List(<<MARKET_6, MARKET_5>>))
EV_AAPL_JAN == EventMetadata(Str(AAPL), Str(ISO_JAN), List(<<>>))
EV_NO_SYMBOL == EventMetadata(None, Str(ISO_JAN), None)

SampleEvents == {EV_NVDA_JAN, EV_AAPL_JAN, EV_NO_SYMBOL}

\* what fetch_stock_events does: returns a list of events, or raises
FetchOutcomes == {List(events) : events \in SeqsUpTo(SampleEvents, 2)}
                     \cup {HTTPError, Timeout}

\* ------------------------------------------- specification: event store
InitEventStore ==
    /\ InitCodec /\ InitStore /\ InitView /\ InitListener /\ InitBuild /\ InitModeler /\ InitEvents

LoopStep ==
    \/ \E outcome \in FetchOutcomes : refresh_fetch(outcome)
    \/ refresh_assign
    \/ refresh_stamp
    \/ log_exception
    \/ sleep

NextEvents ==
    \/ LoopStep
    \/ \E symbol \in {NVDA, AAPL} : EventStore_get_by_symbol(symbol)
    \/ EventStore_get_all
    \/ last_refresh
    \/ \E strike_price \in {5000, 7000} : get_market(NVDA, ISO_JAN, strike_price)
    \/ \E direction \in {Str("above"), None} :
           get_polymarket_prob(NVDA, ISO_JAN, 5000, direction)
    \/ EventStore_clear

\* the refresh loop beside readers on the event loop
SpecEvents == InitEventStore /\ [][NextEvents]_vars

\* The loop alone.  asyncio runs every task that is ready, the worker thread
\* of to_thread ends because the fetch has a timeout, and asyncio.sleep
\* ends after the interval: a loop step that stays possible is taken.
SpecLoop == InitEventStore /\ [][LoopStep]_vars /\ WF_vars(LoopStep)

\* --------------------------------------------------- claims, event store
\* the refresh call of this step raised
RefreshRaises == loop_pc = "start" /\ loop_pc' \in {"except", "raised"}

\* the loop handles the exception of the refresh
HandlesFailure == loop_pc = "except" /\ loop_pc' = "sleep"

SameForReaders(old, new) ==
    /\ \A symbol \in {NVDA, AAPL} :
           EventStore_get_by_symbol_result(new, symbol)
               = EventStore_get_by_symbol_result(old, symbol)
    /\ EventStore_get_all_result(new) = EventStore_get_all_result(old)
    /\ \A strike_price \in {5000, 6000, 7000} :
           get_market_result(new, NVDA, ISO_JAN, strike_price)
               = get_market_result(old, NVDA, ISO_JAN, strike_price)

\* C19: when fetch_stock_events raises inside EventStore.refresh, the stored
\* events and last_refresh are exactly what they were before the refresh,
\* and readers keep getting the previous events
C19_FailedFetchKeepsCache ==
    [][(RefreshRaises \/ HandlesFailure) =>
           /\ _events' = _events
           /\ _last_refresh' = _last_refresh
           /\ SameForReaders(_events, _events')]_vars

\* a reader gets the events of an earlier refresh after a fetch has failed
C19_Witness ==
    /\ fetched \in {HTTPError, Timeout}
    /\ loop_pc = "sleep"
    /\ _last_refresh # None
    /\ op = "EventStore.get_by_symbol"
    /\ ret = List(<<EV_NVDA_JAN>>)
    /\ before.events = _events

\* C20: an exception raised by a refresh inside start_refresh_loop is caught
\* and never leaves the loop; after every refresh attempt, failed or not,
\* the loop sleeps for the refresh interval and then attempts another
\* refresh, so that a later successful fetch is eventually stored
C20_LoopSurvives ==
    /\ [](loop_pc # "raised")
    /\ \A b \in {0, 1} :
           (attempts = b /\ loop_pc # "start") ~> (attempts = b /\ loop_pc = "sleep")
    /\ \A b \in {0, 1} :
           (attempts = b /\ loop_pc = "sleep") ~> (attempts = 1 - b)
    /\ (loop_pc = "assign") ~>
           (loop_pc = "sleep" /\ fetched.kind = "list"
               /\ _events = new_events_of(fetched.items))

\* a fetch that succeeded after a failed attempt is stored, one interval
\* later
C20_Witness ==
    /\ loop_pc = "sleep"
    /\ fetched.kind = "list"
    /\ before.raised
    /\ _events = new_events_of(fetched.items)
    /\ _events # EmptyDict
    /\ _last_refresh = IntValue(clock)
    /\ clock > 0

\* ------------------------------------------------------------ engine: inputs
EngineQuote(type, j, ticks) ==
    [occ_symbol |-> Occ(O_, NVDA, D260117, type, ZeroPad(1000 * j, 8), <<>>),
     bid |-> 2 * ticks[1], ask |-> 2 * ticks[2], ts |-> 1]

\* the store after the quotes have been applied in order: the identifiers
\* are distinct and every quote is accepted, so each apply_quote adds its
\* state at the end
StoreOf(quotes) ==
    [i \in 1..Len(quotes) |->
        [key |-> quotes[i].occ_symbol,
         value |-> apply_quote_call(EmptyDict, quotes[i]).ret]]

\* quotes of another symbol and of another expiry
OtherQuotes ==
    <<[occ_symbol |-> OCC_CALL_AAPL, bid |-> 2, ask |-> 2, ts |-> 1],
      [occ_symbol |-> OCC_CALL_FEB, bid |-> 2, ask |-> 2, ts |-> 1]>>

\* NVDA quotes at 1 to 9 dollars around a forward of 5 dollars; the calls at
\* 8 and 9 dollars are good, two dollars wide, worthless or missing; with
\* itm_zero the in-the-money side is worthless everywhere
EngineQuotes(last, itm_zero) ==
    LET call(j) == IF j >= 8 THEN last[j - 7]
                   ELSE IF itm_zero /\ j < 5 THEN Worth(0) ELSE CallWorth(j)
        put(j) == IF itm_zero /\ j > 5 THEN Worth(0) ELSE PutWorth(j)
        at(j) == (IF call(j) = Absent THEN <<>> ELSE <<EngineQuote("C", j, call(j))>>)
                     \o <<EngineQuote("P", j, put(j))>>
    IN  OtherQuotes \o at(1) \o at(2) \o at(3) \o at(4) \o at(5) \o at(6) \o at(7)
            \o at(8) \o at(9)

EngineStores ==
    {StoreOf(EngineQuotes(last, itm_zero)) :
        last \in [1..2 -> {Absent, Worth(1), <<0, 2>>, Worth(0)}],
        itm_zero \in BOOLEAN}

\* strikes asked for, in thousandths: none, at a quoted strike, between two
EngineStrikes == {-1000, 0, 5000, 5500}

EngineCalls ==
    {EngineArgs(NVDA, EXPIRY_JAN, strike, Float(2), has_event_store) :
        strike \in EngineStrikes, has_event_store \in BOOLEAN}

EngineNumerics ==
    {Numerics(tte_days, no_iv, converges, p_svi, Rat(2, 5)) :
        tte_days \in {0, 30}, no_iv \in {{}, {9000}}, converges \in BOOLEAN,
        p_svi \in {Rat(1, 2), One}}

\* ------------------------------------------------- specification: engine
\* a store filled by the listener and an event store, refreshed or not
InitEngine ==
    /\ InitCodec /\ InitView /\ InitListener /\ InitBuild /\ InitModeler
    /\ _states \in EngineStores
    /\ op = "init" /\ arg = None /\ ret = None
    /\ last_accepted = {} /\ max_ts = {}
    /\ \E refreshed \in BOOLEAN :
           /\ _events = IF refreshed THEN new_events_of(<<EV_NVDA_JAN>>) ELSE EmptyDict
           /\ _last_refresh = IF refreshed THEN IntValue(0) ELSE None
    /\ loop_pc = "start" /\ attempts = 0 /\ clock = 0
    /\ fetched = None /\ before = None

NextEngine ==
    \E args \in EngineCalls, env \in EngineNumerics : run_models_for_expiry(args, env)

SpecEngine == InitEngine /\ [][NextEngine]_vars

\* ---------------------------------------------------------- claims, engine
EngineReturned == call_out # Pending /\ call_out.fn = "run_models_for_expiry"

\* the list has the four models first, in order; the ratio and the slope
\* entry are what those models give on the snapshot; a smile model that
\* lacks data (no time left, or no model built) has prob_above absent; the
\* store is what it was
EntriesAreLocal ==
    LET args == call_in.args
        env == call_in.env
        predictions == call_out.result.predictions
        built(model) == env.tte_days > 0 /\ model # None
        svi == build_svi_model(surface, Rat(env.tte_days, 365), One, args.max_spread,
                               TRIM_PCT, env.no_iv, env.converges)
        spline == build_spline_model(surface, Rat(env.tte_days, 365), One,
                                     args.max_spread, TRIM_PCT, env.no_iv)
    IN  /\ Len(predictions) >= 4
        /\ [i \in 1..4 |-> predictions[i].model_name]
               = <<"simple", "slope", "svi", "spline">>
        /\ predictions[1].prob_above
               = none_if_nan(SimpleModel_prob_above(surface, args.max_spread, args.strike))
        /\ predictions[2].prob_above
               = none_if_nan(SlopeModel_prob_above(surface, 1, One, args.max_spread,
                                                   args.strike))
        /\ predictions[3].prob_above = (IF built(svi) THEN env.p_svi ELSE None)
        /\ predictions[4].prob_above = (IF built(spline) THEN env.p_spline ELSE None)
        /\ _states = call_in.store

\* C11: for every store content, symbol, expiry and strike
\* run_models_for_expiry returns a predictions list whose first four entries
\* are simple, slope, svi, spline in that order; a model that lacks data or
\* fails numerically gets prob_above absent, and this never removes or
\* changes the entry of any other model nor changes the store
C11_FailuresAreLocal ==
    EngineReturned =>
        /\ call_out.result.kind = "ExpiryPredictions"
        /\ EntriesAreLocal

\* the same for the calls with a strike > 0
C11_LocalForPositiveStrike ==
    EngineReturned =>
        \/ call_in.args.strike <= 0
        \/ /\ call_out.result.kind = "ExpiryPredictions"
           /\ EntriesAreLocal

\* a call where the SVI fit fails and the ratio model lacks data while the
\* slope and the spline model give a value
C11_Reached ==
    /\ EngineReturned
    /\ call_in.args.strike > 0
    /\ call_out.result.kind = "ExpiryPredictions"
    /\ call_out.result.predictions[1].prob_above = None
    /\ call_out.result.predictions[2].prob_above # None
    /\ call_out.result.predictions[3].prob_above = None
    /\ call_out.result.predictions[4].prob_above # None
\* ------------------------------------------ event store, direct calls: inputs
EV_NVDA_FEB == EventMetadata(Str(NVDA), Str(ISO_FEB), List(<<MARKET_5>>))
EV_EMPTY_SYMBOL == EventMetadata(Str(<<>>), Str(ISO_JAN), List(<<>>))

RefreshEvents == {EV_NVDA_JAN, EV_NVDA_FEB, EV_AAPL_JAN, EV_NO_SYMBOL, EV_EMPTY_SYMBOL}

\* what fetch_stock_events does: returns a list of events, or raises
RefreshOutcomes ==
    {List(events) : events \in SeqsUpTo(RefreshEvents, 2)}
        \cup {List(<<EV_NVDA_JAN, EV_AAPL_JAN, EV_NVDA_FEB>>),
              List(<<EV_AAPL_JAN, EV_NO_SYMBOL, EV_NVDA_FEB>>)}
        \cup {HTTPError, Timeout}

\* ------------------------------------ specification: event store, direct calls
NextRefresh ==
    \/ \E outcome \in RefreshOutcomes : EventStore_refresh(outcome)
    \/ EventStore_clear
    \/ time_passes
    \/ \E symbol \in {NVDA, AAPL} : EventStore_get_by_symbol(symbol)
    \/ EventStore_get_all
    \/ last_refresh

\* one caller: refresh, clear and reads one after the other
SpecRefresh == InitEventStore /\ [][NextRefresh]_vars

\* ------------------------------------------- claims, event store, direct calls
\* the last call was a refresh and it returned its count
RefreshReturned == op = "EventStore.refresh" /\ ret.kind = "int"

\* the fetched events of the symbol, in fetch order
FetchedFor(symbol) == SelectSeq(fetched.items, LAMBDA e : e.symbol = Str(symbol))

\* C21: after a refresh that returned, the store holds exactly the fetched
\* events that carry a symbol, grouped by symbol in fetch order; no event of
\* an earlier refresh remains; the count returned is the number of stored
\* events; last_refresh is set
C21_RefreshReplaces ==
    RefreshReturned =>
        /\ \A symbol \in {NVDA, AAPL} :
               EventStore_get_by_symbol_result(_events, symbol) = FetchedFor(symbol)
        /\ DictKeys(_events) = {symbol \in {NVDA, AAPL} : FetchedFor(symbol) # <<>>}
        /\ \A i \in 1..Len(_events) : \A j \in 1..Len(_events) :
               _events[i].key = _events[j].key => i = j
        /\ \A i \in 1..Len(_events) : \A j \in 1..Len(_events) :
               i < j => \E m \in 1..Len(fetched.items) :
                   /\ fetched.items[m].symbol = Str(_events[i].key)
                   /\ \A n \in 1..m :
                          fetched.items[n].symbol # Str(_events[j].key)
        /\ \A e \in {EventStore_get_all_result(_events)[i] :
                        i \in 1..Len(EventStore_get_all_result(_events))} :
               \E m \in 1..Len(fetched.items) : fetched.items[m] = e
        /\ ret.value = Len(EventStore_get_all_result(_events))
        /\ _last_refresh # None
        /\ _last_refresh.value <= clock

\* a second refresh left nothing of the first: the store held an NVDA event
\* and a refresh time before, the fetch brought AAPL, a symbol-less event and
\* nothing for NVDA, and now only the AAPL event is stored
C21_Witness ==
    /\ RefreshReturned
    /\ before.last_refresh # None
    /\ EventStore_get_by_symbol_result(before.events, NVDA) = <<EV_NVDA_FEB>>
    /\ fetched = List(<<EV_AAPL_JAN, EV_NO_SYMBOL>>)
    /\ EventStore_get_all_result(_events) = <<EV_AAPL_JAN>>
    /\ ret = IntValue(1)
    /\ _last_refresh.value > before.last_refresh.value

\* ------------------------------------------------------------ listener: inputs
Q == Str(<<"Q">>)

\* two quotes of one call (the later one first in time), a put without
\* prices, a crossed quote, an identifier whose date is not a calendar date,
\* a time stamp after the last datetime, messages without time stamp or
\* symbol, and a trade
MSG_CALL_1 == EquityQuote(Q, Str(OCC_CALL), None, Float(2), IntValue(1))
MSG_CALL_2 == EquityQuote(Q, Str(OCC_CALL), Float(2), Float(2), IntValue(MaxTs))
MSG_PUT == EquityQuote(Q, Str(OCC_PUT), None, None, IntValue(1))
MSG_CROSSED == EquityQuote(Q, Str(OCC_CALL), Float(2), None, IntValue(MaxTs))
MSG_BAD_DATE == EquityQuote(Q, Str(OCC_BAD_DATE), None, Float(2), IntValue(1))
MSG_LATE == EquityQuote(Q, Str(OCC_CALL), None, Float(2), IntValue(MaxTs + 1))
MSG_NO_TS == EquityQuote(Q, Str(OCC_CALL), None, Float(2), None)
MSG_NO_SYMBOL == EquityQuote(Q, None, None, Float(2), IntValue(1))

Messages == {MSG_CALL_1, MSG_CALL_2, MSG_PUT, MSG_CROSSED, MSG_BAD_DATE, MSG_LATE,
             MSG_NO_TS, MSG_NO_SYMBOL, EquityTrade}

Batches == SeqsUpTo(Messages, 2)

\* ------------------------------------------------- specification: listener
\* a listener has been constructed on an empty store, without a queue, with
\* an unbounded queue or with a queue of one place
InitListening ==
    /\ InitCodec /\ InitStore /\ InitView /\ InitBuild /\ InitModeler /\ InitEvents
    /\ event_queue \in {None, Queue(0, <<>>), Queue(1, <<>>)}
    /\ _msg_count = 0
    /\ _client = None
    /\ run_pc = "new"
    /\ run_outcome = Pending
    /\ batch = None
    /\ offered = <<>>
    /\ took = 0

NextListener ==
    \/ \E option_symbols \in {<<>>, <<OCC_CALL, OCC_PUT>>} : run(option_symbols)
    \/ \E messages \in Batches : _handle_message(messages)
    \/ consumer_get
    \/ \E closed \in BOOLEAN : cancel(closed)
    \/ \E outcome \in {None, ConnectionError} : connect_ends(outcome)
    \/ close

SpecListener == InitListening /\ [][NextListener]_vars

\* --------------------------------------------------------- claims, listener
\* the quote the handler makes of a message
QuoteOf(msg) ==
    [occ_symbol |-> msg.symbol.value,
     bid |-> IF msg.bid_price = None THEN 0 ELSE msg.bid_price.value,
     ask |-> IF msg.ask_price = None THEN 0 ELSE msg.ask_price.value,
     ts |-> msg.timestamp.value]

\* a message that carries a quote the store accepts
Applicable(msg) ==
    /\ msg.kind = "EquityQuote"
    /\ msg.event_type = Q
    /\ msg.symbol # None
    /\ msg.timestamp # None
    /\ msg.timestamp.value <= MaxTs
    /\ ~IsGarbage(QuoteOf(msg))
    /\ parse_occ_symbol(msg.symbol.value) \notin {None, ValueError}

\* the last message of the batch that carries an accepted quote for the
\* identifier, or 0
LastApplicable(messages, occ_symbol) ==
    LET hits == {i \in 1..Len(messages) :
                    Applicable(messages[i]) /\ messages[i].symbol = Str(occ_symbol)}
    IN  IF hits = {} THEN 0 ELSE CHOOSE i \in hits : \A j \in hits : j <= i

ListenerIds == {OCC_CALL, OCC_PUT, OCC_BAD_DATE}

\* C22: _handle_message returns whatever a message of the batch raised; the
\* states stored before the batch stay unless a later accepted quote of the
\* batch replaces them, and every message that carries an acceptable quote,
\* before or after a failing one, is applied to the store
C22_FailuresIsolated ==
    op = "_handle_message" =>
        /\ ret = None
        /\ \A occ_symbol \in ListenerIds :
               LET i == LastApplicable(batch.messages, occ_symbol)
               IN  DictGet(_states, occ_symbol) =
                       IF i = 0 THEN DictGet(batch.states, occ_symbol)
                       ELSE NewOptionState(QuoteOf(batch.messages[i]),
                                           parse_occ_symbol(occ_symbol))
        /\ DictKeys(_states) \subseteq ListenerIds

\* a batch whose first message raised inside apply_quote and whose second
\* message was applied, handled after a batch that had filled the queue
C22_Witness ==
    /\ op = "_handle_message"
    /\ batch.messages = <<MSG_BAD_DATE, MSG_CALL_2>>
    /\ batch.logged = <<ValueError, QueueFull>>
    /\ DictGet(batch.states, OCC_PUT) # None
    /\ DictGet(_states, OCC_PUT) = DictGet(batch.states, OCC_PUT)
    /\ DictGet(batch.states, OCC_CALL) = None
    /\ DictGet(_states, OCC_CALL) # None

\* the run was cancelled while it awaited client.connect
RunCancelled == run_pc = "cancelled"

\* C23: when the run of the listener is cancelled, no further message is
\* consumed, the WebSocket client is closed, and whoever awaits run gets the
\* cancellation (CancelledError)
C23_CancelSurfaces ==
    RunCancelled =>
        /\ ~ENABLED (\E messages \in Batches : _handle_message(messages))
        /\ ~_client.open
        /\ run_outcome = CancelledError

\* what the code does on cancellation: no further message is consumed and
\* run returns None to its awaiter
C23_CancelSwallowed ==
    RunCancelled =>
        /\ ~ENABLED (\E messages \in Batches : _handle_message(messages))
        /\ run_outcome = None

\* ---------------------------------------------------- event markets: inputs
\* a second market at 5 dollars, a market at 7 dollars
MARKET_5_LATER == MarketMetadata(Float(5000), Float(Rat(1, 5)), Float(Rat(4, 5)))
MARKET_7 == MarketMetadata(Float(7000), Float(Rat(1, 10)), Float(Rat(9, 10)))

\* events of one symbol and end date: without markets, with an empty market
\* list, with markets at 6 and 5, and with markets at 7 and 5
EV_JAN_NONE == EventMetadata(Str(NVDA), Str(ISO_JAN), None)
EV_JAN_EMPTY == EventMetadata(Str(NVDA), Str(ISO_JAN), List(<<>>))
EV_JAN_75 == EventMetadata(Str(NVDA), Str(ISO_JAN), List(<<MARKET_7, MARKET_5_LATER, MARKET_5>>))

MarketEvents == {EV_NVDA_JAN, EV_JAN_75, EV_JAN_NONE, EV_JAN_EMPTY, EV_NVDA_FEB}

MarketOutcomes == {List(events) : events \in SeqsUpTo(MarketEvents, 2)} \cup {HTTPError}

\* the lookups made: every strike for the symbol and end date that have
\* events, another end date, and a symbol without events
MarketQueries ==
    {[symbol |-> NVDA, end_date |-> ISO_JAN, strike_price |-> k] : k \in {5000, 6000, 7000}}
        \cup {[symbol |-> NVDA, end_date |-> ISO_FEB, strike_price |-> 5000],
              [symbol |-> AAPL, end_date |-> ISO_JAN, strike_price |-> 5000]}

Directions == {Str("above"), Str("below"), None}

\* ------------------------------------------- specification: event markets
NextMarkets ==
    \/ \E outcome \in MarketOutcomes : EventStore_refresh(outcome)
    \/ EventStore_clear
    \/ \E q \in MarketQueries : get_market(q.symbol, q.end_date, q.strike_price)
    \/ \E q \in MarketQueries, direction \in Directions :
           get_polymarket_prob(q.symbol, q.end_date, q.strike_price, direction)

SpecMarkets == InitEventStore /\ [][NextMarkets]_vars

\* ------------------------------------------------- claims, event markets
\* the events stored for the symbol, in order
StoredFor(symbol) ==
    IF \E i \in 1..Len(_events) : _events[i].key = symbol
    THEN _events[CHOOSE i \in 1..Len(_events) : _events[i].key = symbol].value
    ELSE <<>>

\* position of the event that decides: the first one of the symbol with the
\* end date and at least one market; 0 when there is none
Deciding(symbol, end_date) ==
    LET evs == StoredFor(symbol)
        with_markets == {i \in 1..Len(evs) :
                            /\ evs[i].end_date = Str(end_date)
                            /\ evs[i].markets # None
                            /\ Len(evs[i].markets.items) > 0}
    IN  IF with_markets = {} THEN 0
        ELSE CHOOSE i \in with_markets : \A j \in with_markets : i <= j

\* the market that matches (symbol, end_date, strike): the first market at
\* the strike in the deciding event, or None
Matching(symbol, end_date, strike_price) ==
    LET i == Deciding(symbol, end_date)
        markets == StoredFor(symbol)[i].markets.items
        at_strike == {k \in 1..Len(markets) :
                         markets[k].strike_price = Float(strike_price)}
    IN  IF i = 0 THEN None
        ELSE IF at_strike = {} THEN None
        ELSE markets[CHOOSE k \in at_strike : \A n \in at_strike : k <= n]

ProbReturned == op = "EventStore.get_polymarket_prob"

\* C24: get_polymarket_prob returns None when no market matches (symbol,
\* end_date, strike); otherwise the yes_price of the market for direction
\* "above" and its no_price for "below" and for None; it does not raise and
\* leaves the events and last_refresh as they are
C24_PolymarketProb ==
    /\ [](ProbReturned =>
            LET market == Matching(arg.symbol, arg.end_date, arg.strike_price)
            IN  /\ ret \notin {ValueError, HTTPError, Timeout}
                /\ market = None => ret = None
                /\ market # None /\ arg.direction = Str("above")
                       => ret = market.yes_price
                /\ market # None /\ arg.direction \in {Str("below"), None}
                       => ret = market.no_price)
    /\ [][ProbReturned' => _events' = _events /\ _last_refresh' = _last_refresh]_vars

\* the default direction gave the no_price of a market that has both prices
C24_Witness ==
    /\ ProbReturned
    /\ arg.direction = None
    /\ arg.strike_price = 5000
    /\ Matching(arg.symbol, arg.end_date, arg.strike_price) = MARKET_5
    /\ ret = Float(Rat(2, 5))
    /\ _last_refresh # None

MarketReturned == op = "EventStore.get_market"

\* C29: get_market looks only at the first stored event of the symbol whose
\* end_date matches and whose market list is not empty: it returns the first
\* market of that event at the strike, None when that event has no market
\* at the strike (whatever later events hold), and None without such an event
C29_FirstEventDecides ==
    MarketReturned =>
        LET i == Deciding(arg.symbol, arg.end_date)
            markets == StoredFor(arg.symbol)[i].markets.items
            at_strike(k) == markets[k].strike_price = Float(arg.strike_price)
        IN  /\ i = 0 => ret = None
            /\ i > 0 =>
                  /\ ret = None <=> \A k \in 1..Len(markets) : ~at_strike(k)
                  /\ ret # None =>
                         \E k \in 1..Len(markets) :
                             /\ ret = markets[k]
                             /\ at_strike(k)
                             /\ \A n \in 1..(k - 1) : ~at_strike(n)

\* the first event with the end date has markets at 6 and 5 only; a later
\* event with the same end date has one at 7, and a lookup at 7 gives None
C29_Witness ==
    /\ MarketReturned
    /\ StoredFor(NVDA) = <<EV_NVDA_JAN, EV_JAN_75>>
    /\ arg.symbol = NVDA /\ arg.end_date = ISO_JAN /\ arg.strike_price = 7000
    /\ ret = None

\* with an event without markets and one with an empty list in front, the
\* next event decides, and the first of its two markets at 5 is returned
C29_WitnessSkips ==
    /\ MarketReturned
    /\ StoredFor(NVDA) \in {<<EV_JAN_NONE, EV_JAN_75>>, <<EV_JAN_EMPTY, EV_JAN_75>>}
    /\ arg.symbol = NVDA /\ arg.end_date = ISO_JAN /\ arg.strike_price = 5000
    /\ ret = MARKET_5_LATER


\* ------------------------------------------------ specification: command line
API_KEY == <<"k", "e", "y">>

\* --ticker, --strike (thousandths of a dollar, None when omitted), --days
Argvs ==
    {[kind |-> "argv", ticker |-> ticker, strike |-> strike, days |-> 30] :
        ticker \in {NVDA, AAPL, ABC, <<>>}, strike \in {None, Float(0), Float(5000), Float(5500)}}

\* what /run/secrets/MASSIVE_API_KEY holds, and os.getenv of the name
SecretFiles == {None, Str(<<>>), Str(<<" ", LF>>), Str(API_KEY \o <<LF>>)}
Environs == {None, Str(<<>>), Str(API_KEY)}

ChainOf(quotes) ==
    List([i \in 1..Len(quotes) |->
             ChainItem(Str(quotes[i].occ_symbol), quotes[i].bid, quotes[i].ask)])

\* chains with quotes at nine strikes
QuotedChains ==
    {ChainOf(EngineQuotes(<<Worth(1), Worth(1)>>, FALSE)),
     ChainOf(EngineQuotes(<<Absent, Worth(0)>>, TRUE))}

\* other chains the REST client yields: a failure of the request, no
\* contract, contracts without a usable price, and a contract whose
\* identifier carries no calendar date
OtherChains ==
    {ConnectionError, List(<<>>),
     List(<<ChainItem(None, 2, 2), ChainItem(Str(OCC_CALL), 0, 0),
            ChainItem(Str(<<>>), 2, 2)>>),
     List(<<ChainItem(Str(OCC_CALL), 2, 2), ChainItem(Str(OCC_BAD_DATE), 2, 2)>>)}

\* the day of the run: 30 days before the January expiry, on it, 30 days
\* before the February expiry, and after both
Todays == {Date(2025, 12, 18), Date(2026, 1, 17), Date(2026, 1, 21), Date(2026, 2, 21)}

RefreshResults == {List(<<EV_NVDA_JAN>>), HTTPError}

DriverEnv(secret_file, environ, chain, outcome, today) ==
    [kind |-> "env", secret_file |-> secret_file, environ |-> environ,
     chain |-> chain, fetched |-> outcome, today |-> today,
     no_iv |-> {}, converges |-> TRUE, p_svi |-> Rat(1, 2), p_spline |-> Rat(2, 5)]

InitDriver == InitEventStore

\* one run per process: every way of holding or lacking the credential with
\* the other chains; the quoted chains without a secret file
NextDriver ==
    /\ call_out = Pending
    /\ \/ \E argv \in Argvs, secret_file \in SecretFiles, environ \in Environs,
              chain \in OtherChains, outcome \in RefreshResults, today \in Todays :
               main(argv, DriverEnv(secret_file, environ, chain, outcome, today))
       \/ \E argv \in Argvs, environ \in Environs, chain \in QuotedChains,
              outcome \in RefreshResults, today \in Todays :
               main(argv, DriverEnv(None, environ, chain, outcome, today))

SpecDriver == InitDriver /\ [][NextDriver]_vars

\* ------------------------------------------------------ claims, command line
DriverEnded == call_out # Pending /\ call_out.fn = "main"

CredentialMissing ==
    load_required_secret(call_in.env.secret_file, call_in.env.environ) = ConfigurationError

\* C25: the run ends with status 0 when it printed its predictions, and with
\* a non-zero status when the API credential is missing or --ticker is not a
\* recognized ticker
C25_ExitStatus ==
    DriverEnded =>
        /\ call_out.result.reached = "print_predictions" => call_out.result.status = 0
        /\ CredentialMissing => call_out.result.status # 0
        /\ call_in.argv.ticker \notin SYMBOLS => call_out.result.status # 0

\* what the code does: an unrecognized ticker ends the run with status 0,
\* before the credential is looked for; with a recognized ticker a missing
\* credential ends it with status 1
C25_UnknownTickerExitsZero ==
    DriverEnded =>
        /\ call_in.argv.ticker \notin SYMBOLS =>
               call_out.result = Exit(0, "Unknown ticker", None, None)
        /\ call_in.argv.ticker \in SYMBOLS /\ CredentialMissing =>
               call_out.result = Exit(1, "fetch_options_chain", ConfigurationError, None)
        /\ call_out.result.reached = "print_predictions" => call_out.result.status = 0

C25_Printed == DriverEnded /\ call_out.result.reached = "print_predictions"

\* ------------------------------------------------ claims, forward aggregation
\* the call and the put of the surface at a strike that passes
CallAt(k) == CHOOSE pt \in {surface.calls[i] : i \in 1..Len(surface.calls)} : pt.strike = k
PutAt(k) == CHOOSE pt \in {surface.puts[i] : i \in 1..Len(surface.puts)} : pt.strike = k

\* F_i = K + (C - P) / D in dollars (prices are in half dollars, strikes in
\* thousandths)
CandidateForward(k) ==
    Rat(k * call_in.discount.num * 2
            + (CallAt(k).mid - PutAt(k).mid) * call_in.discount.den * 1000,
        2000 * call_in.discount.num)

\* w_i = 1 / max(call.spread + put.spread, 1e-9), as big * 10^9 + fin
CandidateWeight(k) ==
    LET both == CallAt(k).spread + PutAt(k).spread
    IN  IF both = 0 THEN Weighted(One, Zero) ELSE Weighted(Zero, Rat(2, both))

\* the r-th smallest of the candidate forwards
RankedForward(r) ==
    CandidateForward(CHOOSE k \in PassingStrikes :
        /\ Cardinality({j \in PassingStrikes :
               RLt(CandidateForward(j), CandidateForward(k))}) < r
        /\ Cardinality({j \in PassingStrikes :
               RLe(CandidateForward(j), CandidateForward(k))}) >= r)

MedianForward ==
    LET n == Cardinality(PassingStrikes)
    IN  IF n % 2 = 1 THEN RankedForward((n + 1) \div 2)
        ELSE RMul(Rat(1, 2), RAdd(RankedForward(n \div 2), RankedForward((n \div 2) + 1)))

\* the candidates in [median * (1 - trim_pct), median * (1 + trim_pct)]
InsideTrim ==
    {k \in PassingStrikes :
        /\ RLe(RMul(MedianForward, RSub(One, call_in.trim_pct)), CandidateForward(k))
        /\ RLe(CandidateForward(k), RMul(MedianForward, RAdd(One, call_in.trim_pct)))}

UsedStrikes == IF Cardinality(InsideTrim) >= 3 THEN InsideTrim ELSE PassingStrikes

\* the sums over the used candidates of w_i and of w_i * F_i
UsedSum(weighted_by_forward) ==
    LET used == SortedSet(UsedStrikes)
        term(i) == IF i > Len(used) THEN WZero
                   ELSE IF weighted_by_forward
                   THEN WScale(CandidateForward(used[i]), CandidateWeight(used[i]))
                   ELSE CandidateWeight(used[i])
    IN  WAdd(WAdd(WAdd(term(1), term(2)), term(3)), term(4))

\* the product of two sums big * 10^9 + fin, by powers of 10^9
WProduct(x, y) ==
    <<RMul(x.big, y.big), RAdd(RMul(x.big, y.fin), RMul(x.fin, y.big)),
      RMul(x.fin, y.fin)>>

\* C26: the returned forward is the w-weighted mean of the candidates inside
\* the trim window around the median of all candidates when at least 3 lie
\* there and of all candidates otherwise; n_used, min and max describe that
\* used set, and min <= forward <= max
C26_ForwardAggregation ==
    ForwardReturned =>
        LET est == call_out.result
            used == {CandidateForward(k) : k \in UsedStrikes}
        IN  /\ est.median = MedianForward
            /\ est.n_used = Cardinality(UsedStrikes)
            /\ est.min_f \in used /\ \A f \in used : RLe(est.min_f, f)
            /\ est.max_f \in used /\ \A f \in used : RLe(f, est.max_f)
            \* forward * (sum of w_i) = sum of w_i * F_i
            /\ WProduct(est.forward.num, UsedSum(FALSE))
                   = WProduct(est.forward.den, UsedSum(TRUE))
            /\ QCompare(est.forward, est.min_f) >= 0
            /\ QCompare(est.forward, est.max_f) <= 0

\* four candidates of which the trim keeps three, with forwards that differ
\* and one weight smaller than the others
C26_Witness ==
    /\ ForwardReturned
    /\ Cardinality(PassingStrikes) = 4
    /\ Cardinality(InsideTrim) = 3
    /\ Cardinality({CandidateForward(k) : k \in InsideTrim}) = 3
    /\ Cardinality({CandidateWeight(k) : k \in InsideTrim}) = 2
    /\ QCompare(call_out.result.forward, call_out.result.median) # 0

\* fewer than 3 candidates inside the window: all four are used
C26_WitnessFallBack ==
    /\ ForwardReturned
    /\ Cardinality(PassingStrikes) = 4
    /\ Cardinality(InsideTrim) < 3
    /\ call_out.result.n_used = 4
    /\ Cardinality({CandidateWeight(k) : k \in PassingStrikes}) > 1

\* ------------------------------------- specification: surfaces of the store
\* a call, the same identifier followed by a newline, a call at another
\* strike, and a put
SurfaceIds == {OCC_CALL, OCC_CALL_LF, OCC_CALL_150, OCC_PUT}
SurfaceQuotes == Quotes(SurfaceIds, {1, MaxTick}, {1})

NextStoreSurface ==
    \/ \E quote \in SurfaceQuotes : apply_quote(quote)
    \/ clear
    \/ \E max_spread \in {None, Float(0)} :
           snapshot_from_store(NVDA, EXPIRY_JAN, max_spread)

SpecStoreSurface == Init /\ [][NextStoreSurface]_vars

\* ------------------------------------------- claims, surfaces of the store
\* the contract a stored state stands for
ContractOf(st) == <<st.symbol, st.expiration_date, st.option_type, st.strike_price>>

\* C27: after any sequence of apply_quote and clear, no two stored
\* identifiers share the same (ticker, expiry, side, strike), and a Surface
\* built from the store has strictly increasing strikes in calls and in puts
C27_StoreSurfaceStrict ==
    /\ \A i, j \in 1..Len(_states) :
           i # j => ContractOf(_states[i].value) # ContractOf(_states[j].value)
    /\ (op = "build_surface_snapshot" /\ IsSurface(surface)) =>
           StrictlyIncreasing(surface.calls) /\ StrictlyIncreasing(surface.puts)

\* what holds instead: the strikes never decrease, and two calls at one
\* strike come from the identifier and the identifier followed by a newline
C27_EqualStrikesFromNewline ==
    (op = "build_surface_snapshot" /\ IsSurface(surface)) =>
        /\ NonDecreasing(surface.calls) /\ StrictlyIncreasing(surface.puts)
        /\ ~StrictlyIncreasing(surface.calls) =>
               {OCC_CALL, OCC_CALL_LF} \subseteq {_states[i].key : i \in 1..Len(_states)}

\* ------------------------------------- claims, refresh beside the readers
EventReads == {"EventStore.get_by_symbol", "EventStore.get_all", "EventStore.get_market"}

\* a read on the event loop: the refresh in the worker thread takes no step
EventReadStep == op' \in EventReads /\ loop_pc' = loop_pc

\* what the read of this step returns on a given event set
ReadResultOn(events) ==
    IF op' = "EventStore.get_by_symbol"
    THEN List(EventStore_get_by_symbol_result(events, arg'.symbol))
    ELSE IF op' = "EventStore.get_all" THEN List(EventStore_get_all_result(events))
    ELSE get_market_result(events, arg'.symbol, arg'.end_date, arg'.strike_price)

\* the complete set a reader is to see: the one from before the refresh
\* until the refresh has assigned, the fetched one from then on
CompleteSet ==
    IF fetched = None THEN EmptyDict
    ELSE IF fetched.kind = "list" /\ loop_pc # "assign" THEN new_events_of(fetched.items)
    ELSE before.events

\* C28: with the refresh in a worker thread beside readers on the event
\* loop, every single read returns what the complete event set from before
\* the refresh or the complete set from after it gives (or the empty set a
\* clear left), and last_refresh does not name a refresh before its events
\* are assigned
C28_ReadersSeeCompleteSets ==
    /\ [][EventReadStep =>
              ret' \in {ReadResultOn(CompleteSet), ReadResultOn(EmptyDict)}]_vars
    /\ [](loop_pc = "assign" => _last_refresh \in {before.last_refresh, None})
    /\ [][(_last_refresh' # _last_refresh /\ _last_refresh' # None) =>
              /\ loop_pc = "stamp"
              /\ _events \in {new_events_of(fetched.items), EmptyDict}
              /\ _events' = _events]_vars

\* a reader gets the new events, which differ from the old ones, while
\* last_refresh still holds the time of the refresh before
C28_Witness ==
    /\ loop_pc = "stamp"
    /\ op = "EventStore.get_all"
    /\ before.events # EmptyDict
    /\ ret = List(EventStore_get_all_result(new_events_of(fetched.items)))
    /\ ret # List(EventStore_get_all_result(before.events))
    /\ ret # List(<<>>)
    /\ _last_refresh = before.last_refresh
    /\ _last_refresh # None

\* a reader gets the old events while the refresh has fetched others
C28_WitnessBefore ==
    /\ loop_pc = "assign"
    /\ op = "EventStore.get_by_symbol"
    /\ ret = List(EventStore_get_by_symbol_result(before.events, NVDA))
    /\ ret # List(EventStore_get_by_symbol_result(new_events_of(fetched.items), NVDA))
    /\ ret # List(<<>>)

\* ------------------------------------------- claims, listener and its queue
\* a message of which the handler builds a quote and hands it to apply_quote
Offerable(msg) ==
    /\ msg.kind = "EquityQuote"
    /\ msg.event_type = Q
    /\ msg.symbol # None
    /\ msg.timestamp # None
    /\ msg.timestamp.value <= MaxTs

\* a message whose quote apply_quote takes and returns from, with a state
\* or with None
Returning(msg) ==
    /\ Offerable(msg)
    /\ IsGarbage(QuoteOf(msg)) \/ parse_occ_symbol(msg.symbol.value) # ValueError

\* the quotes of the batch that were offered to the store, in order
OfferedQuotes ==
    LET hits == SelectSeq(batch.messages, Offerable)
    IN  [i \in 1..Len(hits) |-> QuoteOf(hits[i])]

\* the quotes of the batch for which apply_quote returned, in order
ReturnedQuotes ==
    LET hits == SelectSeq(batch.messages, Returning)
    IN  [i \in 1..Len(hits) |-> QuoteOf(hits[i])]

\* the queue holds what it held before the batch and then the quotes, as far
\* as it has room
QueueReceived(quotes) ==
    LET room == IF batch.queue.maxsize = 0 THEN Len(quotes)
                ELSE batch.queue.maxsize - Len(batch.queue.items)
        n == IF Len(quotes) < room THEN Len(quotes) ELSE room
    IN  event_queue.items = batch.queue.items \o SubSeq(quotes, 1, n)

\* every accepted quote of the batch left its state, or that of a later
\* accepted quote of the batch for the identifier, in the store
StoreKeepsAccepted ==
    \A i \in 1..Len(batch.messages) :
        Applicable(batch.messages[i]) =>
            \E j \in i..Len(batch.messages) :
                /\ Applicable(batch.messages[j])
                /\ batch.messages[j].symbol = batch.messages[i].symbol
                /\ DictGet(_states, batch.messages[i].symbol.value) =
                       NewOptionState(QuoteOf(batch.messages[j]),
                           parse_occ_symbol(batch.messages[j].symbol.value))

\* the consumer that took an accepted event finds in the store the state of
\* that event or of an accepted one for the identifier that arrived later
ConsumerFindsState ==
    (/\ op = "Queue.get_nowait"
     /\ ~IsGarbage(ret.quote)
     /\ parse_occ_symbol(ret.quote.occ_symbol) \notin {None, ValueError}) =>
        /\ offered[took].quote = ret.quote
        /\ ret.state # None
        /\ \E j \in took..Len(offered) :
               /\ offered[j].accepted
               /\ offered[j].quote.occ_symbol = ret.quote.occ_symbol
               /\ ret.state = NewOptionState(offered[j].quote,
                                  parse_occ_symbol(ret.quote.occ_symbol))

\* C30: the store is offered each quote before the queue is; a consumer that
\* takes an accepted event finds a state for its identifier at least as
\* recent as the event; the queue receives every quote offered to the store,
\* rejected ones included, as far as it has room; and a full queue does not
\* undo the store update
C30_QueueAfterStore ==
    /\ ConsumerFindsState
    /\ op = "_handle_message" =>
           /\ StoreKeepsAccepted
           /\ batch.queue # None => QueueReceived(OfferedQuotes)

\* what the code does: a quote on which apply_quote raises is logged and not
\* put on the queue; the queue receives the quotes apply_quote returned for
C30_QueueAfterReturn ==
    /\ ConsumerFindsState
    /\ op = "_handle_message" =>
           /\ StoreKeepsAccepted
           /\ batch.queue # None => QueueReceived(ReturnedQuotes)

\* a consumer takes the first of two quotes of one call and finds the state
\* of the second
C30_ConsumerFindsLater ==
    /\ op = "Queue.get_nowait"
    /\ ret.quote = QuoteOf(MSG_CALL_2)
    /\ ret.state # None
    /\ ret.state.last_updated = 1

\* a rejected quote is put on the queue, and a quote that found the queue
\* full is in the store
C30_RejectedQueuedFullKept ==
    /\ op = "_handle_message"
    /\ batch.queue = Queue(1, <<>>)
    /\ batch.messages = <<MSG_CROSSED, MSG_PUT>>
    /\ event_queue.items = <<QuoteOf(MSG_CROSSED)>>
    /\ DictGet(_states, OCC_PUT) # None
    /\ batch.logged = <<QueueFull>>
====
